---- MODULE Spec2Model ----
(***************************************************************************)
(* Model of the download / validation / installation pipeline of           *)
(* burncloud-client-models (src/src/validation.rs, src/src/download.rs).   *)
(*                                                                         *)
(* Strings are sequences of one-character strings, so that to_lowercase,   *)
(* Path::extension and starts_with are computed rather than assumed.       *)
(***************************************************************************)
EXTENDS Integers, Sequences, FiniteSets, TLC

VARIABLES
    known_signatures,   \* ModelValidator.known_signatures (its key set)
    validation,         \* the validate_model call last made and what it returned
    temp,               \* <root>/temp/<id>.tmp: the bytes of the file, or None
    downloads,          \* <root>/<artifact-name>: the bytes of the file, or None
    dl,                 \* the download_model calls: arguments, position, progress, result
    started,            \* number of download_model calls made so far
    inodes,             \* which file (numbered) each path of the root names; 0: none
    cn,                 \* the cancel_download call in flight: argument, position, result
    cancels,            \* number of cancel_download calls made so far
    installed_root,     \* whether <root>/installed/ exists
    dirs,               \* <root>/installed/<id>/ for each id, and the custom install directory
    install_result,     \* what the install_model call last made returned
    listing,            \* what the get_installed_models call last made returned
    ops,                \* number of install_model calls made so far
    last,               \* the manager call last made: operation, arguments, result
    prev,               \* the operation and id of the call made before it
    wf,                 \* the install_model_simple call: arguments, position, result
    stream,             \* the stream loop of a download whose size is known: clock, progress
    svc                 \* ModelDataService: its lists, and the call last made on it

vvars == <<known_signatures, validation, wf, stream, svc>>

fvars == <<temp, downloads>>

cvars == <<cn, cancels>>

dvars == <<dl, started, inodes, cn, cancels>>

ivars == <<installed_root, dirs, install_result, listing, ops, last, prev>>

vars == <<known_signatures, validation, temp, downloads, dl, started, inodes, cn, cancels,
          installed_root, dirs, install_result, listing, ops, last, prev, wf, stream, svc>>

\* Option<T>: None is the empty sequence, Some(x) the one-element sequence
None == <<>>
Some(x) == <<x>>
IsSome(o) == o # <<>>
unwrap_or(o, dflt) == IF o = <<>> THEN dflt ELSE o[1]

\* io::Result<Vec<u8>> of a file read
ReadOk(bytes) == [ok |-> TRUE, bytes |-> bytes]
IoErr == [ok |-> FALSE, bytes |-> <<>>]

-----------------------------------------------------------------------------
(* Strings                                                                 *)

\* char::to_lowercase on the characters the model uses
LowerChar(c) ==
    CASE c = "A" -> "a" [] c = "B" -> "b" [] c = "C" -> "c" [] c = "D" -> "d"
      [] c = "E" -> "e" [] c = "F" -> "f" [] c = "G" -> "g" [] c = "L" -> "l"
      [] c = "M" -> "m" [] c = "U" -> "u" [] c = "X" -> "x"
      [] OTHER -> c

\* str::to_lowercase
to_lowercase(s) == [i \in DOMAIN s |-> LowerChar(s[i])]

\* slice::starts_with
starts_with(s, prefix) ==
    /\ Len(prefix) <= Len(s)
    /\ SubSeq(s, 1, Len(prefix)) = prefix

\* index of the last "." of a file name, 0 when there is none
LastDot(name) ==
    LET dots == {i \in DOMAIN name : name[i] = "."}
    IN  IF dots = {} THEN 0 ELSE CHOOSE i \in dots : \A j \in dots : j <= i

\* Path::extension on the final component: None without a dot and for a
\* name whose only dot is its first character, else the text after the last dot
extension(name) ==
    IF LastDot(name) <= 1 THEN None
    ELSE Some(SubSeq(name, LastDot(name) + 1, Len(name)))

\* path.extension().and_then(|ext| ext.to_str()).unwrap_or(dflt)
extension_or(name, dflt) == unwrap_or(extension(name), dflt)

-----------------------------------------------------------------------------
(* Digests                                                                 *)

HexDigit == <<"0", "1", "2", "3", "4", "5", "6", "7",
              "8", "9", "a", "b", "c", "d", "e", "f">>

ByteCode(c) ==
    CASE c = "G" -> 7 [] c = "U" -> 5 [] c = "F" -> 6 [] c = "M" -> 13
      [] c = "L" -> 12 [] c = "x" -> 8 [] c = "y" -> 9 [] OTHER -> 1

RECURSIVE ByteSum(_)
ByteSum(content) ==
    IF content = <<>> THEN 0
    ELSE ByteCode(Head(content)) + ByteSum(Tail(content))

\* A digest stands for the hash of the bytes: a lowercase hexadecimal string
\* ("{:x}") that depends on the algorithm and on every byte.
HashHex(alg, content) ==
    << (CASE alg = "MD5" -> "d" [] alg = "SHA256" -> "a" [] alg = "SHA512" -> "f"),
       HexDigit[(Len(content) % 16) + 1],
       HexDigit[((ByteSum(content) + 10) % 16) + 1] >>

-----------------------------------------------------------------------------
(* validation.rs                                                           *)

Check(t, s) == [check_type |-> t, status |-> s]
Error(t, sev) == [error_type |-> t, severity |-> sev]
Warning(t) == [warning_type |-> t]

EmptyMetadata ==
    [file_size |-> 0, checksum_sha256 |-> <<>>, file_type |-> <<>>,
     permissions |-> 0, is_executable |-> FALSE, model_format |-> None]

\* What the file system answers during one validate_model run:
\*   kind   what path.exists() / path.is_file() see
\*   stat   whether std::fs::metadata succeeds in extract_metadata
\*   read1  the bytes tokio::fs::read returns in extract_metadata, or IoErr
\*   read2  the bytes tokio::fs::read returns in calculate_sha256, or IoErr
\*   perm   what check_permissions sees: "readonly", "writable", or "err"
\*          when std::fs::metadata fails there
\* check_file_exists without the is_file() test
check_file_exists_exists_only(env) ==
    IF env.kind # "absent" THEN Check("FileExists", "Passed")
    ELSE Check("FileExists", "Failed")

check_file_exists(env) ==
    IF env.kind = "file" THEN Check("FileExists", "Passed")
    ELSE Check("FileExists", "Failed")

detect_file_type(name) == extension_or(name, <<"u","n","k","n","o","w","n">>)

\* ModelFormat: the unit variants carry an empty ext, Unknown(String) the string
Format(tag) == [tag |-> tag, ext |-> <<>>]
Unknown(ext) == [tag |-> "Unknown", ext |-> ext]

\* a sniffer that looks at the magic bytes before the extension
detect_model_format_magic_first(name, content) ==
    LET ext == to_lowercase(extension_or(name, <<>>))
    IN  IF starts_with(content, <<"G","G","U","F">>) THEN Format("GGUF")
        ELSE IF starts_with(content, <<"G","G","M","L">>) THEN Format("GGML")
        ELSE CASE ext = <<"g","g","u","f">> -> Format("GGUF")
               [] ext = <<"g","g","m","l">> -> Format("GGML")
               [] ext = <<"s","a","f","e","t","e","n","s","o","r","s">> -> Format("SafeTensors")
               [] ext \in {<<"p","t">>, <<"p","t","h">>} -> Format("PyTorch")
               [] ext = <<"p","b">> -> Format("TensorFlow")
               [] ext = <<"o","n","n","x">> -> Format("ONNX")
               [] OTHER -> Unknown(extension_or(name, <<>>))

detect_model_format(name, content) ==
    LET ext == to_lowercase(extension_or(name, <<>>))
    IN  CASE ext = <<"g","g","u","f">> -> Format("GGUF")
          [] ext = <<"g","g","m","l">> -> Format("GGML")
          [] ext = <<"s","a","f","e","t","e","n","s","o","r","s">> -> Format("SafeTensors")
          [] ext \in {<<"p","t">>, <<"p","t","h">>} -> Format("PyTorch")
          [] ext = <<"p","b">> -> Format("TensorFlow")
          [] ext = <<"o","n","n","x">> -> Format("ONNX")
          [] OTHER ->
                IF starts_with(content, <<"G","G","U","F">>) THEN Format("GGUF")
                ELSE IF starts_with(content, <<"G","G","M","L">>) THEN Format("GGML")
                ELSE Unknown(extension_or(name, <<>>))

\* Ok(metadata) or Err: the two `?` of extract_metadata
extract_metadata(name, env) ==
    IF ~env.stat \/ ~env.read1.ok THEN [ok |-> FALSE, metadata |-> EmptyMetadata]
    ELSE [ok |-> TRUE,
          metadata |->
            [file_size |-> Len(env.read1.bytes),
             checksum_sha256 |-> HashHex("SHA256", env.read1.bytes),
             file_type |-> detect_file_type(name),
             permissions |-> 420,
             is_executable |-> FALSE,
             model_format |-> Some(detect_model_format(name, env.read1.bytes))]]

calculate_sha256(env) ==
    IF ~env.read2.ok THEN [ok |-> FALSE, value |-> <<>>]
    ELSE [ok |-> TRUE, value |-> HashHex("SHA256", env.read2.bytes)]

verify_checksum(env, expected) ==
    LET actual == calculate_sha256(env)
    IN  IF actual.ok
        THEN IF to_lowercase(actual.value) = to_lowercase(expected)
             THEN Check("Checksum", "Passed")
             ELSE Check("Checksum", "Failed")
        ELSE Check("Checksum", "Failed")

validate_file_format(metadata) ==
    IF metadata.model_format = None THEN Check("FileFormat", "Failed")
    ELSE IF metadata.model_format[1].tag = "Unknown" THEN Check("FileFormat", "Warning")
    ELSE Check("FileFormat", "Passed")

suspicious_extensions ==
    {<<"e","x","e">>, <<"b","a","t">>, <<"c","m","d">>, <<"s","c","r">>, <<"c","o","m">>}

scan_for_malware(name) ==
    IF extension_or(name, <<>>) \in suspicious_extensions
    THEN Check("MalwareCheck", "Failed")
    ELSE Check("MalwareCheck", "Passed")

check_permissions(env) ==
    IF env.perm = "err" THEN Check("Permissions", "Failed")
    ELSE IF env.perm = "readonly" THEN Check("Permissions", "Passed")
    ELSE Check("Permissions", "Warning")

check_dependencies == Check("Dependencies", "Passed")

verify_digital_signature(name, sigs) ==
    IF name \in sigs THEN Check("DigitalSignature", "Passed")
    ELSE Check("DigitalSignature", "Warning")


\* The accumulators `checks`, `errors`, `warnings` of validate_model
Acc(checks, errors, warnings) ==
    [checks |-> checks, errors |-> errors, warnings |-> warnings]

\* 1. existence: the check is always recorded, a Critical error on failure
StepFileExists(env) ==
    LET c == check_file_exists(env)
    IN  Acc(<<c>>,
            IF c.status = "Failed"
            THEN <<Error("CorruptedFile", "Critical")>> ELSE <<>>,
            <<>>)

\* a checksum step that compares with a digest the publisher supplied
StepChecksum_publisher(acc, config, env, metadata) ==
    IF config.enable_checksum_verification
    THEN LET c == verify_checksum(env, HashHex("SHA256", <<"G","G","U","F","x">>))
         IN  Acc(Append(acc.checks, c),
                 IF c.status = "Failed"
                 THEN Append(acc.errors, Error("ChecksumMismatch", "High"))
                 ELSE acc.errors,
                 acc.warnings)
    ELSE acc

\* 3. checksum verification, against the digest extract_metadata computed
StepChecksum(acc, config, env, metadata) ==
    IF config.enable_checksum_verification
    THEN LET c == verify_checksum(env, metadata.checksum_sha256)
         IN  Acc(Append(acc.checks, c),
                 IF c.status = "Failed"
                 THEN Append(acc.errors, Error("ChecksumMismatch", "High"))
                 ELSE acc.errors,
                 acc.warnings)
    ELSE acc

\* 4. format validation
StepFormat(acc, config, metadata) ==
    IF config.enable_format_validation
    THEN LET c == validate_file_format(metadata)
         IN  Acc(Append(acc.checks, c),
                 IF c.status = "Failed"
                 THEN Append(acc.errors, Error("InvalidFormat", "Medium"))
                 ELSE acc.errors,
                 acc.warnings)
    ELSE acc

\* the malware step recording its finding as High instead of Critical
StepMalware_high(acc, config, name) ==
    IF config.enable_malware_scanning
    THEN LET c == scan_for_malware(name)
         IN  Acc(Append(acc.checks, c),
                 IF c.status = "Failed"
                 THEN Append(acc.errors, Error("SecurityRisk", "High"))
                 ELSE acc.errors,
                 acc.warnings)
    ELSE acc

\* 5. malware scan
StepMalware(acc, config, name) ==
    IF config.enable_malware_scanning
    THEN LET c == scan_for_malware(name)
         IN  Acc(Append(acc.checks, c),
                 IF c.status = "Failed"
                 THEN Append(acc.errors, Error("SecurityRisk", "Critical"))
                 ELSE acc.errors,
                 acc.warnings)
    ELSE acc

\* 6. permission check
StepPermission(acc, config, env) ==
    IF config.enable_permission_check
    THEN LET c == check_permissions(env)
         IN  Acc(Append(acc.checks, c),
                 acc.errors,
                 IF c.status = "Warning"
                 THEN Append(acc.warnings, Warning("SecurityConcern"))
                 ELSE acc.warnings)
    ELSE acc

\* 7. dependency check
StepDependency(acc, config) ==
    IF config.enable_dependency_check
    THEN LET c == check_dependencies
         IN  Acc(Append(acc.checks, c),
                 acc.errors,
                 IF c.status = "Warning"
                 THEN Append(acc.warnings, Warning("CompatibilityIssue"))
                 ELSE acc.warnings)
    ELSE acc

\* the signature step run only in strict mode
StepSignature_strict_only(acc, config, name, sigs) ==
    IF config.strict_mode
    THEN LET c == verify_digital_signature(name, sigs)
         IN  Acc(Append(acc.checks, c), acc.errors,
                 IF c.status = "Warning"
                 THEN Append(acc.warnings, Warning("SecurityConcern"))
                 ELSE acc.warnings)
    ELSE acc

\* 8. digital signature: runs whatever the config says
StepSignature(acc, config, name, sigs) ==
    LET c == verify_digital_signature(name, sigs)
    IN  Acc(Append(acc.checks, c),
            IF c.status = "Failed" /\ config.strict_mode
            THEN Append(acc.errors, Error("SecurityRisk", "High"))
            ELSE acc.errors,
            IF ~(c.status = "Failed" /\ config.strict_mode) /\ c.status = "Warning"
            THEN Append(acc.warnings, Warning("SecurityConcern"))
            ELSE acc.warnings)

HasSeverity(errors, sev) == \E i \in DOMAIN errors : errors[i].severity = sev

\* a verdict that lets every High error invalidate, strict mode or not
Verdict_always_strict(errors, config) ==
    ~HasSeverity(errors, "Critical") /\ ~HasSeverity(errors, "High")

\* the final verdict
Verdict(errors, config) ==
    LET has_critical_errors == HasSeverity(errors, "Critical")
        has_high_errors == HasSeverity(errors, "High")
    IN  ~has_critical_errors /\ (~config.strict_mode \/ ~has_high_errors)

ValidationResult(is_valid, acc, metadata) ==
    [ok |-> TRUE, is_valid |-> is_valid, checks_performed |-> acc.checks,
     errors |-> acc.errors, warnings |-> acc.warnings, metadata |-> metadata]

\* Err(ValidatorError::IoError): no ValidationResult is returned
ValidatorErr ==
    [ok |-> FALSE, is_valid |-> FALSE, checks_performed |-> <<>>,
     errors |-> <<>>, warnings |-> <<>>, metadata |-> EmptyMetadata]

\* ModelValidator::validate_model
validate_model(name, config, env, sigs) ==
    LET a1 == StepFileExists(env)
    IN  IF a1.checks[1].status # "Passed"
        THEN ValidationResult(FALSE, a1, EmptyMetadata)
        ELSE LET md == extract_metadata(name, env)
             IN  IF ~md.ok THEN ValidatorErr
                 ELSE LET a3 == StepChecksum(a1, config, env, md.metadata)
                          a4 == StepFormat(a3, config, md.metadata)
                          a5 == StepMalware(a4, config, name)
                          a6 == StepPermission(a5, config, env)
                          a7 == StepDependency(a6, config)
                          a8 == StepSignature(a7, config, name, sigs)
                      IN  ValidationResult(Verdict(a8.errors, config), a8, md.metadata)

-----------------------------------------------------------------------------
(* Inputs of the validation runs                                           *)

FileNames ==
    { <<"m",".","g","g","u","f">>,      \* m.gguf
      <<"m",".","G","G","U","F">>,      \* m.GGUF
      <<"r",".","e","x","e">>,          \* r.exe
      <<"r",".","E","X","E">>,          \* r.EXE
      <<"a",".","b","a","t">>,          \* a.bat
      <<"t",".","x","y","z">>,          \* t.xyz
      <<"m">> }                         \* m, no extension

Contents ==
    { <<>>, <<"G","G","U","F","x">>, <<"G","G","M","L">>, <<"x","y">> }

\* ValidationConfig; timeout_seconds and quarantine_suspicious_files are
\* never read by validate_model and are left out
ValidationConfigs ==
    [enable_checksum_verification : BOOLEAN,
     enable_malware_scanning : BOOLEAN,
     enable_format_validation : BOOLEAN,
     enable_dependency_check : BOOLEAN,
     enable_permission_check : BOOLEAN,
     strict_mode : BOOLEAN]

NoFile(kind) ==
    [kind |-> kind, stat |-> FALSE, read1 |-> IoErr, read2 |-> IoErr, perm |-> "err"]

\* the answers of the file system to one run: a missing path, a directory, a
\* file that cannot be stat'ed or read, and a readable file that is read a
\* second time (possibly changed or gone by then) and stat'ed for permissions
FileEnvs ==
    {NoFile("absent"), NoFile("dir"), NoFile("file")}
    \cup {[kind |-> "file", stat |-> TRUE, read1 |-> IoErr, read2 |-> IoErr, perm |-> "err"]}
    \cup {[kind |-> "file", stat |-> TRUE, read1 |-> ReadOk(b1), read2 |-> r2, perm |-> p] :
            b1 \in Contents, r2 \in {ReadOk(b) : b \in Contents} \cup {IoErr},
            p \in {"readonly", "writable", "err"}}

\* the signature tables load_signatures can install
SignatureTables == SUBSET { <<"m",".","g","g","u","f">>, <<"r",".","e","x","e">> }

-----------------------------------------------------------------------------
(* Actions of the validator                                                *)

\* DiscoveredModel, the fields install_model_simple reads
DiscoveredModel(id, name, version, download_url, checksum) ==
    [id |-> id, name |-> name, version |-> version,
     download_url |-> download_url, checksum |-> checksum]

NoModel == DiscoveredModel(0, <<>>, "", "", <<>>)

\* no install_model_simple call has been made
IdleWorkflow ==
    [pc |-> "idle", model_name |-> <<>>, model_version |-> None,
     discovered_model |-> NoModel, result |-> "Pending"]

\* DownloadProgress as the stream loop keeps it: the literal of
\* download_model, before the first chunk
InitialProgress ==
    [total_bytes |-> 0, downloaded_bytes |-> 0, download_speed_bps |-> 0,
     estimated_remaining_seconds |-> None]

\* no stream is being read; chunk_len and interval describe the throughput
\* of the connection, ticks is the reading of the clock since start_time
IdleStream ==
    [pc |-> "idle", chunk_len |-> 0, interval |-> 0, ticks |-> 0, chunks |-> 0,
     progress |-> InitialProgress]

\* InstalledModel, the fields ModelDataService reads and writes; process_id
\* and the timestamps are written but never read and are left out
InstalledModel(id, status, port) == [id |-> id, status |-> status, port |-> port]

\* get_example_installed_models and get_example_available_models, cut down
\* to two models each: a Running and a Stopped installed model, each with
\* its port, and two available models that are not installed
ExampleInstalled ==
    << InstalledModel(1, "Running", Some(8001)), InstalledModel(2, "Stopped", Some(8002)) >>
ExampleAvailable == <<3, 4>>

\* the result of a ModelDataService call: Ok(()) or Err(message)
NoDataCall == [op |-> "none", model_id |-> 0, port |-> 0, result |-> "none"]

\* ModelDataService::new()
NewDataService ==
    [installed_models |-> ExampleInstalled, available_models |-> ExampleAvailable,
     last |-> NoDataCall]

InitV ==
    /\ known_signatures = {}
    /\ validation = None
    /\ wf = IdleWorkflow
    /\ stream = IdleStream
    /\ svc = NewDataService

\* ModelValidator::load_signatures: a readable, well-formed signatures file
\* replaces the table; a missing file leaves it alone (Ok), an unreadable or
\* malformed one returns Err and leaves it alone
LoadSignatures ==
    /\ validation = None
    /\ \E outcome \in {"loaded", "missing", "error"}, table \in SignatureTables :
          known_signatures' = IF outcome = "loaded" THEN table ELSE known_signatures
    /\ UNCHANGED <<svc, validation, wf, stream, fvars, dvars, ivars>>

ValidateModel ==
    /\ validation = None
    /\ \E name \in FileNames, config \in ValidationConfigs, env \in FileEnvs :
          validation' = Some([name |-> name, config |-> config, env |-> env,
                              sigs |-> known_signatures,
                              result |-> validate_model(name, config, env, known_signatures)])
    /\ UNCHANGED <<svc, known_signatures, wf, stream, fvars, dvars, ivars>>

\* the caller consumes the result
DropValidation ==
    /\ validation # None
    /\ validation' = None
    /\ UNCHANGED <<svc, known_signatures, wf, stream, fvars, dvars, ivars>>

NextV == LoadSignatures \/ ValidateModel \/ DropValidation

-----------------------------------------------------------------------------
(* validation.rs: validate_model on model files of every format            *)

\* file names with each extension the sniffer knows, in either case, with an
\* extension it does not know, and with none
FormatNames ==
    { <<"m",".","g","g","u","f">>, <<"m",".","G","g","U","f">>,
      <<"m",".","g","g","m","l">>, <<"m",".","G","G","M","L">>,
      <<"m",".","s","a","f","e","t","e","n","s","o","r","s">>,
      <<"m",".","p","t">>, <<"m",".","P","T","H">>, <<"m",".","p","t","h">>,
      <<"m",".","p","b">>, <<"m",".","o","n","n","x">>, <<"m",".","O","N","N","X">>,
      <<"t",".","x","y","z">>, <<"t",".","X","y","Z">>, <<"r",".","e","x","e">>,
      <<"m">> }

\* validate_model is called with a name and a config among those given
ValidateWith(names, configs) ==
    /\ validation = None
    /\ \E name \in names, config \in configs, env \in FileEnvs :
          validation' = Some([name |-> name, config |-> config, env |-> env,
                              sigs |-> known_signatures,
                              result |-> validate_model(name, config, env, known_signatures)])
    /\ UNCHANGED <<svc, known_signatures, wf, stream, fvars, dvars, ivars>>

\* ValidationConfig::default()
DefaultValidationConfig ==
    [enable_checksum_verification |-> TRUE,
     enable_malware_scanning |-> TRUE,
     enable_format_validation |-> TRUE,
     enable_dependency_check |-> FALSE,
     enable_permission_check |-> TRUE,
     strict_mode |-> FALSE]

ValidateFormats == ValidateWith(FormatNames, {DefaultValidationConfig})

NextF == ValidateFormats \/ DropValidation

-----------------------------------------------------------------------------
(* validation.rs: quick_validate                                           *)

\* a quick validation run under the default configuration
QuickValidateConfig_default == DefaultValidationConfig

\* the ValidationConfig literal of quick_validate
QuickValidateConfig ==
    [enable_checksum_verification |-> TRUE,
     enable_malware_scanning |-> FALSE,
     enable_format_validation |-> TRUE,
     enable_dependency_check |-> FALSE,
     enable_permission_check |-> FALSE,
     strict_mode |-> FALSE]

\* Result<bool, ValidatorError>
QuickOk(b) == [ok |-> TRUE, value |-> b]
QuickErr == [ok |-> FALSE, value |-> FALSE]

\* ModelValidator::quick_validate: validate_model(..).await? , Ok(result.is_valid)
quick_validate(name, env, sigs) ==
    LET result == validate_model(name, QuickValidateConfig, env, sigs)
    IN  IF ~result.ok THEN QuickErr ELSE QuickOk(result.is_valid)

\* quick_validate is called and returns; the record keeps the
\* ValidationResult it was computed from
QuickValidate ==
    /\ validation = None
    /\ \E name \in FileNames, env \in FileEnvs :
          validation' = Some([name |-> name, config |-> QuickValidateConfig, env |-> env,
                              sigs |-> known_signatures,
                              result |-> validate_model(name, QuickValidateConfig, env,
                                                        known_signatures),
                              returned |-> quick_validate(name, env, known_signatures)])
    /\ UNCHANGED <<svc, known_signatures, wf, stream, fvars, dvars, ivars>>

NextQ == LoadSignatures \/ QuickValidate \/ DropValidation

-----------------------------------------------------------------------------
(* Properties of validate_model                                            *)

CheckTypes(checks) == [i \in DOMAIN checks |-> checks[i].check_type]

\* the run recorded in `validation` was made on an existing regular file
\* and returned a ValidationResult
ValidatedFile ==
    /\ validation # None
    /\ validation[1].env.kind = "file"
    /\ validation[1].result.ok

\* C1: validate_model on a path that does not exist or is not a regular
\* file returns Ok with is_valid = false, the single check FileExists/Failed
\* and empty metadata, for every config.
C1_MissingFileShortCircuits ==
    (validation # None /\ validation[1].env.kind # "file") =>
        LET r == validation[1].result
        IN  /\ r.ok
            /\ r.is_valid = FALSE
            /\ r.checks_performed = <<Check("FileExists", "Failed")>>
            /\ r.metadata.file_size = 0
            /\ r.metadata.checksum_sha256 = <<>>
            /\ r.metadata.model_format = None

C1_Witness ==
    /\ validation # None
    /\ validation[1].env.kind = "dir"
    /\ validation[1].config.strict_mode
    /\ validation[1].config.enable_malware_scanning
    /\ Len(validation[1].result.checks_performed) = 1

\* C2: on an existing file the returned is_valid equals (no Critical error)
\* and (not strict_mode or no High error); nothing else changes it.
C2_VerdictRule ==
    ValidatedFile =>
        LET r == validation[1].result
            critical == \E i \in DOMAIN r.errors : r.errors[i].severity = "Critical"
            high == \E i \in DOMAIN r.errors : r.errors[i].severity = "High"
        IN  r.is_valid = (~critical /\ (~validation[1].config.strict_mode \/ ~high))

\* a High error alone, outside strict mode, with a warning: still valid
C2_Witness ==
    /\ ValidatedFile
    /\ ~validation[1].config.strict_mode
    /\ validation[1].result.errors = <<Error("ChecksumMismatch", "High")>>
    /\ validation[1].result.warnings # <<>>
    /\ validation[1].result.is_valid

\* C3: an existing file with extension exe, malware scanning enabled: a
\* MalwareCheck/Failed check, a Critical SecurityRisk error, is_valid false,
\* whatever strict_mode and the other toggles are.
C3_ExeAlwaysRejected ==
    ( /\ ValidatedFile
      /\ extension(validation[1].name) = Some(<<"e","x","e">>)
      /\ validation[1].config.enable_malware_scanning ) =>
        LET r == validation[1].result
        IN  /\ \E i \in DOMAIN r.checks_performed :
                  r.checks_performed[i] = Check("MalwareCheck", "Failed")
            /\ \E i \in DOMAIN r.errors :
                  r.errors[i] = Error("SecurityRisk", "Critical")
            /\ r.is_valid = FALSE

C3_Witness ==
    /\ ValidatedFile
    /\ validation[1].name = <<"r",".","e","x","e">>
    /\ validation[1].config.enable_malware_scanning
    /\ ~validation[1].config.strict_mode
    /\ ~validation[1].config.enable_checksum_verification
    /\ validation[1].name \in validation[1].sigs
    /\ validation[1].result.is_valid = FALSE

\* C4: in strict mode, validating an existing file whose name is not in the
\* known-signatures table records an error for the missing signature and
\* forces is_valid = false.
C4_StrictUnsignedInvalid ==
    ( /\ ValidatedFile
      /\ validation[1].config.strict_mode
      /\ validation[1].name \notin validation[1].sigs ) =>
        LET r == validation[1].result
        IN  /\ \E i \in DOMAIN r.errors : r.errors[i] = Error("SecurityRisk", "High")
            /\ r.is_valid = FALSE

\* C5: on an existing file checks_performed is the subsequence of
\* FileExists, Checksum, FileFormat, MalwareCheck, Permissions, Dependencies,
\* DigitalSignature that the toggles select, in that order, each at most once.
CheckOrder ==
    <<"FileExists", "Checksum", "FileFormat", "MalwareCheck",
      "Permissions", "Dependencies", "DigitalSignature">>

CheckEnabled(config, t) ==
    CASE t = "Checksum" -> config.enable_checksum_verification
      [] t = "FileFormat" -> config.enable_format_validation
      [] t = "MalwareCheck" -> config.enable_malware_scanning
      [] t = "Permissions" -> config.enable_permission_check
      [] t = "Dependencies" -> config.enable_dependency_check
      [] OTHER -> TRUE

RECURSIVE KeepEnabled(_, _)
KeepEnabled(config, types) ==
    IF types = <<>> THEN <<>>
    ELSE IF CheckEnabled(config, Head(types))
         THEN <<Head(types)>> \o KeepEnabled(config, Tail(types))
         ELSE KeepEnabled(config, Tail(types))

C5_ChecksInFixedOrder ==
    ValidatedFile =>
        CheckTypes(validation[1].result.checks_performed)
            = KeepEnabled(validation[1].config, CheckOrder)

C5_Witness ==
    /\ ValidatedFile
    /\ ~validation[1].config.strict_mode
    /\ ~validation[1].config.enable_format_validation
    /\ CheckTypes(validation[1].result.checks_performed)
         = <<"FileExists", "Checksum", "MalwareCheck", "Permissions",
             "Dependencies", "DigitalSignature">>

\* the extensions the sniffer knows, in lower case, and their formats
KnownExtensions ==
    { << <<"g","g","u","f">>, "GGUF" >>,
      << <<"g","g","m","l">>, "GGML" >>,
      << <<"s","a","f","e","t","e","n","s","o","r","s">>, "SafeTensors" >>,
      << <<"p","t">>, "PyTorch" >>,
      << <<"p","t","h">>, "PyTorch" >>,
      << <<"p","b">>, "TensorFlow" >>,
      << <<"o","n","n","x">>, "ONNX" >> }

C24_ChecksumComparesFileWithItself ==
    (/\ ValidatedFile
     /\ validation[1].config.enable_checksum_verification
     /\ validation[1].env.read1.ok
     /\ validation[1].env.read2 = validation[1].env.read1) =>
        LET r == validation[1].result
        IN  /\ \E i \in DOMAIN r.checks_performed :
                  r.checks_performed[i] = Check("Checksum", "Passed")
            /\ \A i \in DOMAIN r.checks_performed :
                  r.checks_performed[i] # Check("Checksum", "Failed")
            /\ \A i \in DOMAIN r.errors : r.errors[i].error_type # "ChecksumMismatch"

\* a file holding other bytes than the publisher's passes the checksum check
\* in strict mode
C24_Witness ==
    /\ ValidatedFile
    /\ validation[1].config.enable_checksum_verification
    /\ validation[1].config.strict_mode
    /\ validation[1].env.read1 = ReadOk(<<"x","y">>)
    /\ validation[1].env.read2 = ReadOk(<<"x","y">>)
    /\ validation[1].result.checks_performed[2] = Check("Checksum", "Passed")
    /\ validation[1].result.is_valid

\* C23: quick_validate returns exactly the is_valid verdict of validate_model
\* under the config that enables checksum verification and format validation
\* only, strict_mode off; the malware, permission and dependency checks are
\* never run, so a readable file with a denylisted extension is not rejected.
C23_QuickValidateReducedChecks ==
    (validation # None /\ validation[1].config = QuickValidateConfig) =>
        LET v == validation[1]
            reduced == [enable_checksum_verification |-> TRUE,
                        enable_malware_scanning |-> FALSE,
                        enable_format_validation |-> TRUE,
                        enable_dependency_check |-> FALSE,
                        enable_permission_check |-> FALSE,
                        strict_mode |-> FALSE]
            full == validate_model(v.name, reduced, v.env, v.sigs)
            types == {v.result.checks_performed[i].check_type :
                        i \in DOMAIN v.result.checks_performed}
        IN  /\ v.returned.ok = full.ok
            /\ full.ok => v.returned.value = full.is_valid
            /\ types \cap {"MalwareCheck", "Permissions", "Dependencies"} = {}
            /\ (/\ extension_or(v.name, <<>>) \in suspicious_extensions
                /\ v.env.kind = "file"
                /\ v.returned.ok) => v.returned.value = TRUE

\* r.exe, readable: quick_validate returns Ok(true)
C23_Witness ==
    /\ validation # None
    /\ validation[1].config = QuickValidateConfig
    /\ validation[1].name = <<"r",".","e","x","e">>
    /\ validation[1].env.kind = "file"
    /\ validation[1].returned = QuickOk(TRUE)

-----------------------------------------------------------------------------
(* download.rs: download_model                                             *)

\* bound of the download runs: download_model calls made in one behaviour
MaxCalls == 2

\* get_available_disk_space, in units of 10^9 bytes (10_000_000_000 bytes);
\* the content lengths the HEAD request reports are counted in the same unit
AvailableDiskSpace == 10

Calls == {1, 2}
Ids == {1, 2}
Names == { <<"m",".","g","g","u","f">>, <<"r",".","e","x","e">> }
ChecksumTypes == {"MD5", "SHA256"}

\* the download URLs callers pass: two that parse, each serving the chunks
\* of one artifact, and one that reqwest::Url::parse rejects
Urls == {"https://h/a", "https://h/b", "not a url"}
UrlParses(url) == url # "not a url"
Body(url) ==
    IF url = "https://h/a" THEN << <<"G","G">>, <<"x">> >>
    ELSE << <<"x","y">> >>

\* char::to_uppercase, used only to spell the digests callers pass in
UpperChar(c) ==
    CASE c = "a" -> "A" [] c = "b" -> "B" [] c = "c" -> "C" [] c = "d" -> "D"
      [] c = "e" -> "E" [] c = "f" -> "F" [] OTHER -> c

to_uppercase(s) == [i \in DOMAIN s |-> UpperChar(s[i])]

\* the digests the callers expect: the SHA-256 of the bytes GGx (what the
\* first URL serves) in lower and in upper case, and their MD5
ExpectedChecksums ==
    { HashHex("SHA256", <<"G","G","x">>),
      to_uppercase(HashHex("SHA256", <<"G","G","x">>)),
      HashHex("MD5", <<"G","G","x">>) }

HeadLengths == { None, Some(AvailableDiskSpace), Some(AvailableDiskSpace + 1) }
GetLengths == { None, Some(3) }

\* Result<DownloadProgress, DownloadError>; tag "Pending" while the call runs
Pending ==
    [tag |-> "Pending", expected |-> <<>>, actual |-> <<>>,
     required |-> 0, available |-> 0]
Err(tag) == [Pending EXCEPT !.tag = tag]
ChecksumMismatch(expected, actual) ==
    [Pending EXCEPT !.tag = "ChecksumMismatch", !.expected = expected, !.actual = actual]
InsufficientSpace(required, available) ==
    [Pending EXCEPT !.tag = "InsufficientSpace", !.required = required,
                    !.available = available]
Ok == [Pending EXCEPT !.tag = "Ok"]

NoTemp == [i \in Ids |-> None]
NoDownloads == [n \in Names |-> None]

\* one download_model call.  pc is the await the call is suspended at;
\* chunks counts the chunks of the body received so far;
\* head_len is Some(content_length) once the HEAD response has arrived;
\* status_log lists the values assigned to progress.status, in order;
\* get_sent, temp_created and renamed record that the call has sent its body
\* GET request, created its temp file and renamed it into the download dir;
\* before holds the files as they were when the call was made;
\* ino is the file the call's open handle writes to (0: no handle).
IdleCall ==
    [pc |-> "idle", model_id |-> 0, model_name |-> <<>>, url |-> "",
     expected |-> <<>>, ctype |-> "SHA256", head_len |-> None, progress |-> None,
     status_log |-> <<>>, chunks |-> 0,
     get_sent |-> FALSE, temp_created |-> FALSE, renamed |-> FALSE, ino |-> 0,
     before |-> [temp |-> NoTemp, downloads |-> NoDownloads],
     result |-> Pending]

NewProgress ==
    [status |-> "Downloading", total_bytes |-> 0, downloaded_bytes |-> 0]

\* progress.status = s
SetStatus(call, s) ==
    [call EXCEPT !.progress = Some([@[1] EXCEPT !.status = s]),
                 !.status_log = Append(@, s)]

\* the call returns r
Return(call, r) == [call EXCEPT !.pc = "done", !.result = r, !.ino = 0]

get_available_disk_space == AvailableDiskSpace

\* a space check that never refuses
check_disk_space_unchecked(content_length) == Ok

\* check_disk_space after the HEAD response: Ok or Err(InsufficientSpace)
check_disk_space(content_length) ==
    LET required_size == unwrap_or(content_length, 0)
        available_space == get_available_disk_space
    IN  IF required_size > available_space
        THEN InsufficientSpace(required_size, available_space)
        ELSE Ok

\* ModelDownloadManager::calculate_checksum on bytes that were read
calculate_checksum(content, checksum_type) == HashHex(checksum_type, content)

\* verify_checksum comparing the digests as written, case included
download_verify_checksum_exact(content, expected, checksum_type) ==
    LET actual == HashHex(checksum_type, content)
    IN  IF actual # expected
        THEN ChecksumMismatch(expected, actual)
        ELSE Ok

\* ModelDownloadManager::verify_checksum on bytes that were read
download_verify_checksum(content, expected, checksum_type) ==
    LET actual == calculate_checksum(content, checksum_type)
    IN  IF to_lowercase(actual) # to_lowercase(expected)
        THEN ChecksumMismatch(expected, actual)
        ELSE Ok

\* the progress record is created with status Downloading, then the body
\* GET request is sent
BeginTransfer(call) ==
    [call EXCEPT !.progress = Some(NewProgress),
                 !.status_log = <<"Downloading">>,
                 !.get_sent = TRUE,
                 !.pc = "get"]

\* an end of stream that goes on without announcing Verifying
EndOfStream_silent(call) == [call EXCEPT !.pc = "verify", !.ino = 0]

\* end of the stream: flush, drop(file), progress.status = Verifying
EndOfStream(call) == [SetStatus(call, "Verifying") EXCEPT !.pc = "verify", !.ino = 0]

\* a checksum failure reported in the progress record of an Ok result
AfterVerify_reporting(call, verdict) ==
    IF verdict.tag = "Ok" THEN [call EXCEPT !.pc = "rename"]
    ELSE Return(SetStatus(call, "Failed"), Ok)

\* after verify_checksum returned Ok: the rename is attempted next
AfterVerify(call, verdict) ==
    IF verdict.tag = "Ok" THEN [call EXCEPT !.pc = "rename"]
    ELSE Return(call, verdict)

\* no path of the root names a file
NoInodes == [temp |-> [i \in Ids |-> 0], down |-> [n \in Names |-> 0]]

\* the number given to a file that File::create makes: the least one that no
\* path names and no open handle holds
FreshInode ==
    LET used == {inodes.temp[i] : i \in Ids} \cup {inodes.down[n] : n \in Names}
                  \cup {dl[c].ino : c \in Calls}
    IN  CHOOSE n \in 1..(Cardinality(used) + 1) : n \notin used /\ \A m \in 1..(n - 1) : m \in used

\* write_all through a handle at offset off: the bytes before the offset
\* stay (a gap reads as NUL bytes, written "0"), the chunk replaces what was
\* at the offset
WriteAt(content, off, chunk) ==
    LET padded == IF Len(content) < off
                  THEN content \o [i \in 1..(off - Len(content)) |-> "0"]
                  ELSE content
    IN  SubSeq(padded, 1, off) \o chunk
           \o SubSeq(padded, off + Len(chunk) + 1, Len(padded))

\* a cancel_download call.  pc: "remove" between temp_file_path.exists()
\* having answered true and remove_file; existed is that answer; streaming
\* tells whether a download_model call for the id was in its stream loop
\* when the call was made; in_flight holds the download_model calls for the
\* id that had started and not returned when the call returned Ok
IdleCancel ==
    [pc |-> "idle", model_id |-> 0, existed |-> FALSE, streaming |-> FALSE,
     in_flight |-> {}, result |-> "Pending"]

InitD ==
    /\ temp = NoTemp
    /\ downloads = NoDownloads
    /\ dl = [c \in Calls |-> IdleCall]
    /\ started = 0
    /\ inodes = NoInodes
    /\ cn = IdleCancel
    /\ cancels = 0

\* a manager that turns a call away while another one for the id is in flight
StartWith_exclusive(c, ids, names, urls, expecteds, ctypes) ==
    /\ dl[c].pc = "idle"
    /\ started < MaxCalls
    /\ started' = started + 1
    /\ \E id \in ids, name \in names, url \in urls,
          expected \in expecteds, ctype \in ctypes :
          LET call == [IdleCall EXCEPT !.model_id = id, !.model_name = name,
                                       !.url = url,
                                       !.expected = expected, !.ctype = ctype,
                                       !.before = [temp |-> temp, downloads |-> downloads]]
              busy == \E o \in Calls \ {c} :
                         dl[o].model_id = id /\ dl[o].pc \notin {"idle", "done"}
          IN  dl' = [dl EXCEPT ![c] = IF busy THEN Return(call, Err("ModelAlreadyExists"))
                                      ELSE IF UrlParses(url) THEN [call EXCEPT !.pc = "head"]
                                      ELSE Return(call, Err("InvalidUrl"))]
    /\ UNCHANGED <<temp, downloads, inodes, vvars, ivars, cvars>>

\* download_model is called with arguments among those given: Url::parse,
\* then the HEAD request is sent
StartWith(c, ids, names, urls, expecteds, ctypes) ==
    /\ dl[c].pc = "idle"
    /\ started < MaxCalls
    /\ started' = started + 1
    /\ \E id \in ids, name \in names, url \in urls,
          expected \in expecteds, ctype \in ctypes :
          LET call == [IdleCall EXCEPT !.model_id = id, !.model_name = name,
                                       !.url = url,
                                       !.expected = expected, !.ctype = ctype,
                                       !.before = [temp |-> temp, downloads |-> downloads]]
          IN  dl' = [dl EXCEPT ![c] = IF UrlParses(url) THEN [call EXCEPT !.pc = "head"]
                                      ELSE Return(call, Err("InvalidUrl"))]
    /\ UNCHANGED <<temp, downloads, inodes, vvars, ivars, cvars>>

\* download_model with any arguments
StartDownload(c) == StartWith(c, Ids, Names, Urls, ExpectedChecksums, ChecksumTypes)

\* the HEAD request of check_disk_space completes, reporting a content
\* length among those given
HeadWith(c, lengths) ==
    /\ dl[c].pc = "head"
    /\ \/ dl' = [dl EXCEPT ![c] = Return(@, Err("NetworkError"))]
       \/ \E len \in lengths :
             LET call == [dl[c] EXCEPT !.head_len = Some(len)]
                 space == check_disk_space(len)
             IN  dl' = [dl EXCEPT ![c] = IF space.tag = "Ok" THEN BeginTransfer(call)
                                         ELSE Return(call, space)]
    /\ UNCHANGED <<temp, downloads, started, inodes, vvars, ivars, cvars>>

HeadResponse(c) == HeadWith(c, HeadLengths)

\* the GET request completes, reporting a content length among those given;
\* on success File::create is awaited next
GetWith(c, lengths) ==
    /\ dl[c].pc = "get"
    /\ \/ dl' = [dl EXCEPT ![c] = Return(@, Err("NetworkError"))]
       \/ dl' = [dl EXCEPT ![c] = Return(@, Err("InvalidUrl"))]
       \/ \E len \in lengths :
             dl' = [dl EXCEPT ![c] =
                      [@ EXCEPT !.progress = Some([@[1] EXCEPT !.total_bytes = unwrap_or(len, 0)]),
                                !.pc = "create"]]
    /\ UNCHANGED <<temp, downloads, started, inodes, vvars, ivars, cvars>>

GetResponse(c) == GetWith(c, GetLengths)

\* tokio::fs::File::create(&temp_file_path): creates or truncates the file
CreateTemp(c) ==
    /\ dl[c].pc = "create"
    /\ \/ /\ dl' = [dl EXCEPT ![c] = Return(@, Err("IoError"))]
          /\ UNCHANGED <<temp, inodes>>
       \/ LET id == dl[c].model_id
              n == IF temp[id] # None THEN inodes.temp[id] ELSE FreshInode
          IN  /\ temp' = [temp EXCEPT ![id] = Some(<<>>)]
              /\ inodes' = [inodes EXCEPT !.temp[id] = n]
              /\ dl' = [dl EXCEPT ![c] = [@ EXCEPT !.temp_created = TRUE, !.ino = n,
                                                   !.pc = "stream"]]
    /\ UNCHANGED <<downloads, started, vvars, ivars, cvars>>

\* stream.next() yields a chunk (or an error), write_all appends it to the
\* temp file (or fails), the progress record is updated
RecvChunk(c) ==
    /\ dl[c].pc = "stream"
    /\ dl[c].chunks < Len(Body(dl[c].url))
    /\ \/ /\ dl' = [dl EXCEPT ![c] = Return(@, Err("NetworkError"))]
          /\ UNCHANGED <<temp, downloads>>
       \/ /\ dl' = [dl EXCEPT ![c] = Return(@, Err("IoError"))]
          /\ UNCHANGED <<temp, downloads>>
       \/ LET chunk == Body(dl[c].url)[dl[c].chunks + 1]
              id == dl[c].model_id
              off == dl[c].progress[1].downloaded_bytes
              moved == {n \in Names : downloads[n] # None /\ inodes.down[n] = dl[c].ino}
          IN \* the handle writes to the file it opened, wherever that file is
             \* now: still at the temp path, renamed into the download
             \* directory by another call, or unlinked
             /\ IF temp[id] # None /\ inodes.temp[id] = dl[c].ino
                THEN /\ temp' = [temp EXCEPT ![id] = Some(WriteAt(@[1], off, chunk))]
                     /\ UNCHANGED downloads
                ELSE /\ downloads' = [n \in Names |->
                                        IF n \in moved
                                        THEN Some(WriteAt(downloads[n][1], off, chunk))
                                        ELSE downloads[n]]
                     /\ UNCHANGED temp
             /\ dl' = [dl EXCEPT ![c] =
                         [@ EXCEPT !.chunks = @ + 1,
                                   !.progress = Some([@[1] EXCEPT !.downloaded_bytes =
                                                        @ + Len(chunk)])]]
    /\ UNCHANGED <<started, inodes, vvars, ivars, cvars>>

\* stream.next() yields None (the body is complete, or the server closed
\* early): flush (which may fail), then Verifying
StreamEnd(c) ==
    /\ dl[c].pc = "stream"
    /\ \/ dl' = [dl EXCEPT ![c] = Return(@, Err("IoError"))]
       \/ dl' = [dl EXCEPT ![c] = EndOfStream(@)]
    /\ UNCHANGED <<temp, downloads, started, inodes, vvars, ivars, cvars>>

\* verify_checksum: the temp file is read back and its digest compared
VerifyDownload(c) ==
    /\ dl[c].pc = "verify"
    /\ \/ dl' = [dl EXCEPT ![c] = Return(@, Err("IoError"))]
       \/ /\ temp[dl[c].model_id] # None
          /\ dl' = [dl EXCEPT ![c] =
                      AfterVerify(@, download_verify_checksum(temp[@.model_id][1],
                                                              @.expected, @.ctype))]
    /\ UNCHANGED <<temp, downloads, started, inodes, vvars, ivars, cvars>>

\* tokio::fs::rename(temp, <root>/<model_name>), then Completed and Ok(progress)
RenameTemp(c) ==
    /\ dl[c].pc = "rename"
    /\ \/ /\ dl' = [dl EXCEPT ![c] = Return(@, Err("IoError"))]
          /\ UNCHANGED <<temp, downloads, inodes>>
       \/ /\ temp[dl[c].model_id] # None
          /\ downloads' = [downloads EXCEPT ![dl[c].model_name] = temp[dl[c].model_id]]
          /\ temp' = [temp EXCEPT ![dl[c].model_id] = None]
          /\ inodes' = [inodes EXCEPT !.down[dl[c].model_name] = inodes.temp[dl[c].model_id],
                                      !.temp[dl[c].model_id] = 0]
          /\ dl' = [dl EXCEPT ![c] =
                      Return([SetStatus(@, "Completed") EXCEPT !.renamed = TRUE], Ok)]
    /\ UNCHANGED <<started, vvars, ivars, cvars>>

\* pause_download / resume_download: acknowledged, nothing changes
PauseDownload == UNCHANGED vars
ResumeDownload == UNCHANGED vars

\* the caller takes the result; the call slot is free again
DropDownload(c) ==
    /\ dl[c].pc = "done"
    /\ dl' = [dl EXCEPT ![c] = IdleCall]
    /\ UNCHANGED <<temp, downloads, started, inodes, vvars, ivars, cvars>>

\* download_model calls made one after the other
SeqCalls == {1}

NextD ==
    \/ \E c \in SeqCalls :
          \/ StartDownload(c) \/ HeadResponse(c) \/ GetResponse(c) \/ CreateTemp(c)
          \/ RecvChunk(c) \/ StreamEnd(c) \/ VerifyDownload(c) \/ RenameTemp(c)
          \/ DropDownload(c)
    \/ PauseDownload
    \/ ResumeDownload

-----------------------------------------------------------------------------
(* download.rs: download_model calls running at the same time, and         *)
(* cancel_download                                                         *)

\* bound of the concurrent runs: cancel_download calls made in one behaviour
MaxCancels == 2

\* the bytes a URL serves, in one piece
RECURSIVE Concat(_)
Concat(chunks) ==
    IF chunks = <<>> THEN <<>> ELSE Head(chunks) \o Concat(Tail(chunks))

\* the two tasks of the concurrent runs: the first downloads m.gguf as id 1
\* from the first URL, the second downloads either name as either id from
\* the second URL; each passes the SHA-256 digest of what its URL serves
TaskUrl(c) == IF c = 1 THEN "https://h/a" ELSE "https://h/b"

StartConcurrent(c) ==
    StartWith(c,
              IF c = 1 THEN {1} ELSE Ids,
              IF c = 1 THEN { <<"m",".","g","g","u","f">> } ELSE Names,
              {TaskUrl(c)},
              {HashHex("SHA256", Concat(Body(TaskUrl(c))))},
              {"SHA256"})

\* the servers of the concurrent runs report no Content-Length
HeadConcurrent(c) == HeadWith(c, {None})
GetConcurrent(c) == GetWith(c, {None})

\* the download_model calls for the id that have started and not returned
InFlight(id) ==
    {c \in Calls : dl[c].model_id = id /\ dl[c].pc \notin {"idle", "done"}}

\* cancel_download is called: temp_file_path.exists()
CancelCheck ==
    /\ cn.pc = "idle"
    /\ cancels < MaxCancels
    /\ cancels' = cancels + 1
    /\ \E id \in Ids :
          LET existed == temp[id] # None
          IN  cn' = [pc |-> IF existed THEN "remove" ELSE "done",
                     model_id |-> id,
                     existed |-> existed,
                     streaming |-> \E c \in Calls :
                                      dl[c].model_id = id /\ dl[c].pc = "stream",
                     in_flight |-> IF existed THEN {} ELSE InFlight(id),
                     result |-> IF existed THEN "Pending" ELSE "Ok"]
    /\ UNCHANGED <<temp, downloads, dl, started, inodes, vvars, ivars>>

\* a cancel that also ends the download it finds in its stream loop
CancelRemove_interrupting ==
    /\ cn.pc = "remove"
    /\ temp' = [temp EXCEPT ![cn.model_id] = None]
    /\ inodes' = [inodes EXCEPT !.temp[cn.model_id] = 0]
    /\ cn' = [cn EXCEPT !.pc = "done", !.result = "Ok", !.in_flight = InFlight(cn.model_id)]
    /\ dl' = [c \in Calls |->
                IF dl[c].pc = "stream" /\ dl[c].model_id = cn.model_id
                THEN Return(SetStatus(dl[c], "Cancelled"), Err("Cancelled"))
                ELSE dl[c]]
    /\ UNCHANGED <<downloads, started, cancels, vvars, ivars>>

\* tokio::fs::remove_file(&temp_file_path).await?: the file is unlinked, or
\* is no longer there
CancelRemove ==
    /\ cn.pc = "remove"
    /\ IF temp[cn.model_id] # None
       THEN /\ temp' = [temp EXCEPT ![cn.model_id] = None]
            /\ inodes' = [inodes EXCEPT !.temp[cn.model_id] = 0]
            /\ cn' = [cn EXCEPT !.pc = "done", !.result = "Ok",
                                !.in_flight = InFlight(cn.model_id)]
       ELSE /\ cn' = [cn EXCEPT !.pc = "done", !.result = "IoError"]
            /\ UNCHANGED <<temp, inodes>>
    /\ UNCHANGED <<downloads, dl, started, cancels, vvars, ivars>>

\* the caller takes the result of cancel_download
DropCancel ==
    /\ cn.pc = "done"
    /\ cn' = IdleCancel
    /\ UNCHANGED <<temp, downloads, dl, started, inodes, cancels, vvars, ivars>>

NextC ==
    \/ \E c \in Calls :
          \/ StartConcurrent(c) \/ HeadConcurrent(c) \/ GetConcurrent(c) \/ CreateTemp(c)
          \/ RecvChunk(c) \/ StreamEnd(c) \/ VerifyDownload(c) \/ RenameTemp(c)
    \/ CancelCheck
    \/ CancelRemove
    \/ DropCancel

-----------------------------------------------------------------------------
(* download.rs: the progress figures of the stream loop                    *)

\* the longest body, in chunks
MaxChunks == 5

\* the clock start_time.elapsed() reads is finer than the whole seconds
\* as_secs() returns: ticks per second
TicksPerSecond == 2

\* a connection of constant throughput delivers a chunk of chunk_len bytes
\* every interval ticks
ChunkLens == 1..3
Intervals == 1..3

\* Duration::as_secs: the whole seconds, the fraction dropped
as_secs(ticks) == ticks \div TicksPerSecond

\* u64::saturating_sub
saturating_sub(a, b) == IF a > b THEN a - b ELSE 0

\* the progress update of the stream loop after a chunk: downloaded is the
\* byte count so far, elapsed the whole seconds since start_time
UpdateProgress(progress, downloaded, elapsed) ==
    LET p1 == [progress EXCEPT !.downloaded_bytes = downloaded]
    IN  IF elapsed > 0
        THEN LET speed == downloaded \div elapsed
                 p2 == [p1 EXCEPT !.download_speed_bps = speed]
             IN  IF speed > 0
                 THEN [p2 EXCEPT !.estimated_remaining_seconds =
                          Some(saturating_sub(p2.total_bytes, downloaded) \div speed)]
                 ELSE p2
        ELSE p1

\* the GET response reports the content length, the temp file is created
\* and start_time is taken
BeginStream ==
    /\ stream.pc = "idle"
    /\ \E chunk_len \in ChunkLens, interval \in Intervals, n \in 1..MaxChunks :
          stream' = [IdleStream EXCEPT
                        !.pc = "streaming", !.chunk_len = chunk_len, !.interval = interval,
                        !.progress = [InitialProgress EXCEPT
                                         !.total_bytes = chunk_len * n]]
    /\ UNCHANGED <<svc, known_signatures, validation, wf, fvars, dvars, ivars>>

\* stream.next() yields the next chunk, one interval after the last
NextChunk ==
    /\ stream.pc = "streaming"
    /\ stream.progress.downloaded_bytes < stream.progress.total_bytes
    /\ LET ticks == stream.ticks + stream.interval
           downloaded == stream.progress.downloaded_bytes + stream.chunk_len
       IN  stream' = [stream EXCEPT
                         !.ticks = ticks,
                         !.chunks = @ + 1,
                         !.progress = UpdateProgress(@, downloaded, as_secs(ticks))]
    /\ UNCHANGED <<svc, known_signatures, validation, wf, fvars, dvars, ivars>>

\* stream.next() yields None: the body is complete
EndStream ==
    /\ stream.pc = "streaming"
    /\ stream.progress.downloaded_bytes = stream.progress.total_bytes
    /\ stream' = [stream EXCEPT !.pc = "done"]
    /\ UNCHANGED <<svc, known_signatures, validation, wf, fvars, dvars, ivars>>

NextE == BeginStream \/ NextChunk \/ EndStream

-----------------------------------------------------------------------------
(* Properties of download_model                                            *)

\* position of a status in the lifecycle
\* Queued -> Downloading -> Verifying -> Installing -> terminal
Rank(status) ==
    CASE status = "Queued" -> 0
      [] status \in {"Downloading", "Paused"} -> 1
      [] status = "Verifying" -> 2
      [] status = "Installing" -> 3
      [] status \in {"Completed", "Failed", "Cancelled"} -> 4

\* C6: during a download_model call the progress status only moves forward
\* along Queued, Downloading, Verifying, Installing, terminal, and Completed
\* is reached only after Verifying, itself after Downloading.
C6_StatusForwardOnly ==
    \A c \in Calls :
        LET log == dl[c].status_log
        IN  /\ \A i, j \in DOMAIN log : i < j => Rank(log[i]) <= Rank(log[j])
            /\ \A i \in DOMAIN log : log[i] \in {"Completed", "Failed", "Cancelled"}
                                      => i = Len(log)
            /\ \A j \in DOMAIN log : log[j] = "Completed" =>
                  \E h, i \in DOMAIN log :
                      h < i /\ i < j /\ log[h] = "Downloading" /\ log[i] = "Verifying"
            /\ dl[c].progress # None =>
                  /\ log # <<>>
                  /\ dl[c].progress[1].status = log[Len(log)]

C6_Witness ==
    \E c \in Calls :
        /\ dl[c].pc = "done"
        /\ dl[c].result.tag = "Ok"
        /\ dl[c].status_log = <<"Downloading", "Verifying", "Completed">>
        /\ dl[c].progress[1].downloaded_bytes = 3

DigestsMatch(call, content) ==
    to_lowercase(HashHex(call.ctype, content)) = to_lowercase(call.expected)

\* C7: a digest that differs from expected_checksum, compared without regard
\* to case, fails the call with ChecksumMismatch{expected, actual}, and that
\* call places no file at <root>/<artifact-name>; the rename happens only
\* after a successful verification, and only then is the status Completed.
C7_MismatchPlacesNoFile ==
    \A c \in Calls :
        LET call == dl[c]
        IN  /\ call.result.tag = "ChecksumMismatch" =>
                  /\ temp[call.model_id] # None
                  /\ ~DigestsMatch(call, temp[call.model_id][1])
                  /\ call.result.expected = call.expected
                  /\ call.result.actual = HashHex(call.ctype, temp[call.model_id][1])
                  /\ downloads = call.before.downloads
                  /\ ~call.renamed
                  /\ call.status_log = <<"Downloading", "Verifying">>
            /\ call.pc = "rename" =>
                  /\ temp[call.model_id] # None
                  /\ DigestsMatch(call, temp[call.model_id][1])
            /\ (call.pc = "done" /\ call.renamed) =>
                  /\ call.result.tag = "Ok"
                  /\ downloads[call.model_name] # None
                  /\ DigestsMatch(call, downloads[call.model_name][1])
            /\ (\E i \in DOMAIN call.status_log : call.status_log[i] = "Completed")
                  => call.renamed
            /\ (call.pc = "done" /\ ~call.renamed) => downloads = call.before.downloads

\* a second call for a name already downloaded, failing on its checksum
C7_Witness ==
    \E c \in Calls :
        /\ dl[c].result.tag = "ChecksumMismatch"
        /\ dl[c].before.downloads[dl[c].model_name] # None
        /\ dl[c].before.downloads[dl[c].model_name] # temp[dl[c].model_id]
        /\ dl[c].result.expected # to_lowercase(dl[c].result.expected)

\* C8: a HEAD content length above the available space fails the call with
\* InsufficientSpace{required, available} before the body GET request is
\* sent and before the temp file is created.
C8_SpaceCheckedFirst ==
    \A c \in Calls :
        LET call == dl[c]
            required == unwrap_or(unwrap_or(call.head_len, None), 0)
        IN  /\ (call.head_len # None /\ required > AvailableDiskSpace) =>
                  /\ call.pc = "done"
                  /\ call.result = InsufficientSpace(required, AvailableDiskSpace)
                  /\ ~call.get_sent
                  /\ ~call.temp_created
                  /\ call.progress = None
                  /\ temp = call.before.temp
                  /\ downloads = call.before.downloads
            /\ call.result.tag = "InsufficientSpace" =>
                  /\ call.head_len # None
                  /\ required > AvailableDiskSpace

\* refused for lack of space, with the temp file of an earlier call untouched
C8_Witness ==
    \E c \in Calls :
        /\ dl[c].result.tag = "InsufficientSpace"
        /\ dl[c].result.required = AvailableDiskSpace + 1
        /\ temp[dl[c].model_id] # None

-----------------------------------------------------------------------------
(* Properties of cancel_download and of concurrent downloads               *)

\* C15: cancel_download(id) always succeeds: it deletes <root>/temp/<id>.tmp
\* when the file exists and returns Ok when it does not, and it never touches
\* the temp file of another id, the download directory or an installation.
C15_CancelAlwaysSucceeds ==
    [][ /\ (cn.pc # "done" /\ cn'.pc = "done") =>
              /\ cn'.result = "Ok"
              /\ temp'[cn'.model_id] = None
        /\ cn' # cn =>
              /\ downloads' = downloads
              /\ \A i \in Ids \ {cn'.model_id} : temp'[i] = temp[i]
              /\ dirs' = dirs
      ]_vars

\* C17: download_model calls running at the same time for two different ids
\* use no path in common, so neither affects the result of the other: the
\* file a call has verified, renamed and reported Completed is the file
\* found at <root>/<artifact-name>, with the digest the call expected.
C17_DifferentIdsIndependent ==
    \A c1, c2 \in Calls :
        ( /\ c1 # c2
          /\ dl[c1].pc = "done"
          /\ dl[c1].result.tag = "Ok"
          /\ dl[c2].pc # "idle"
          /\ dl[c2].model_id # dl[c1].model_id ) =>
            /\ downloads[dl[c1].model_name] # None
            /\ DigestsMatch(dl[c1], downloads[dl[c1].model_name][1])

\* C18: the manager keeps no record of the calls in flight: a download_model
\* call is turned away only for a URL that does not parse, whatever the other
\* calls are doing, and File::create opens the one temp file of the id even
\* while another call for the id is writing it, so two calls for one id can
\* be in the Downloading stage together, both writing <root>/temp/<id>.tmp.
C18_NoInFlightGuard ==
    [][ \A c \in Calls :
          /\ (dl[c].pc = "idle" /\ dl'[c].pc # "idle") =>
                /\ dl'[c].pc = "head" <=> UrlParses(dl'[c].url)
                /\ dl'[c].pc # "head" => dl'[c].result.tag = "InvalidUrl"
          /\ (dl[c].pc = "create" /\ dl'[c].pc = "stream") =>
                /\ temp'[dl[c].model_id] = Some(<<>>)
                /\ dl'[c].ino = inodes'.temp[dl[c].model_id]
                /\ \A o \in Calls \ {c} :
                      ( /\ dl[o].pc = "stream"
                        /\ dl[o].model_id = dl[c].model_id
                        /\ temp[dl[o].model_id] # None
                        /\ dl[o].ino = inodes.temp[dl[o].model_id] )
                      => /\ dl'[o].pc = "stream"
                         /\ dl'[c].ino = dl[o].ino
      ]_vars

\* two calls for id 1 both in the stream loop, holding the same file, which
\* has bytes of both bodies in it
C18_Witness ==
    /\ dl[1].pc = "stream"
    /\ dl[2].pc = "stream"
    /\ dl[1].model_id = dl[2].model_id
    /\ dl[1].ino = dl[2].ino
    /\ dl[1].ino = inodes.temp[dl[1].model_id]
    /\ dl[1].progress[1].status = "Downloading"
    /\ dl[2].progress[1].status = "Downloading"
    /\ temp[dl[1].model_id] = Some(<<"x", "y", "x">>)

\* the call is in its stream loop, writing the file at the temp path
StreamingIntoTemp(c, id) ==
    /\ dl[c].pc = "stream"
    /\ dl[c].model_id = id
    /\ temp[id] # None
    /\ dl[c].ino = inodes.temp[id]

C26_CancelledDownloadNeverCompletes ==
    \A c \in Calls :
       ( /\ cn.pc = "done"
         /\ cn.result = "Ok"
         /\ c \in cn.in_flight
         /\ \A o \in Calls \ {c} : dl[o].model_id # dl[c].model_id ) =>
           /\ ~dl[c].renamed
           /\ ~(dl[c].pc = "done" /\ dl[c].result.tag = "Ok")

-----------------------------------------------------------------------------
(* download.rs: install_model and get_installed_models                     *)

\* bound of the installation runs: install_model calls made in one behaviour
MaxInstalls == 1

\* a path: the directory it lies in ("temp" for <root>/temp, "root" for
\* <root>) and its final component
Path(dir, name) == [dir |-> dir, name |-> name]

IdChar(id) == IF id = 1 THEN "1" ELSE "2"

\* format!("{}.tmp", model_id)
TempName(id) == <<IdChar(id), ".", "t", "m", "p">>

IdOfTemp(name) == CHOOSE i \in Ids : TempName(i) = name

\* the model_path arguments: a temp file, a downloaded file, and a path
\* without a final component (file_name() is None)
NoFileName == Path("root", <<>>)
SourcePaths ==
    { Path("temp", TempName(1)), Path("root", <<"m",".","g","g","u","f">>), NoFileName }

\* the final components install_model can be given: those of the paths
\* above and those of the downloaded artifacts
TargetNames == {p.name : p \in SourcePaths \ {NoFileName}} \cup Names

\* the bytes at a path of the download root, or None
ReadFile(fs, path) ==
    IF path.name = <<>> THEN None
    ELSE IF path.dir = "temp" THEN fs.temp[IdOfTemp(path.name)]
    ELSE fs.downloads[path.name]

WriteFile(fs, path, content) ==
    IF path.dir = "temp"
    THEN [fs EXCEPT !.temp[IdOfTemp(path.name)] = content]
    ELSE [fs EXCEPT !.downloads[path.name] = content]

\* an entry of an install directory: nothing, a copied file, or a symlink
NoNode == [kind |-> "none", bytes |-> <<>>, target |-> NoFileName]
CopyNode(bytes) == [kind |-> "copy", bytes |-> bytes, target |-> NoFileName]
LinkNode(target) == [kind |-> "symlink", bytes |-> <<>>, target |-> target]

\* what reading through an entry yields: its bytes, the bytes of the file a
\* link points at, or None
ReadNode(fs, node) ==
    IF node.kind = "copy" THEN Some(node.bytes)
    ELSE IF node.kind = "symlink" THEN ReadFile(fs, node.target)
    ELSE None

\* model.json: whether it can be read as text, whether the text is a JSON
\* object, and the members of that object
Doc(readable, json, obj) == [readable |-> readable, json |-> json, obj |-> obj]

\* the descriptor install_model writes
InstallDescriptor(model_id, file_size, checksum) ==
    Doc(TRUE, TRUE,
        [model_id |-> model_id, installed_at |-> 0, version |-> "1.0.0",
         file_size |-> file_size, checksum |-> checksum])

EmptyInstallationMetadata ==
    [config_files |-> <<>>, data_files |-> <<>>, executable_files |-> <<>>,
     documentation |-> <<>>, symlinks |-> <<>>]

\* a serialized ModelInstallation, as another program may have written it
FullDescriptor(dir, model_id) ==
    Doc(TRUE, TRUE,
        [model_id |-> model_id, install_path |-> dir, version |-> "1.0.0",
         installed_at |-> 0, file_size |-> 3,
         checksum |-> HashHex("SHA256", <<"G","G","x">>),
         dependencies |-> <<>>, metadata |-> EmptyInstallationMetadata])

\* a descriptor cut short, and one that cannot be read as text
TruncatedDoc == Doc(TRUE, FALSE, [truncated |-> TRUE])
UnreadableDoc == Doc(FALSE, FALSE, [truncated |-> TRUE])

\* the fields of struct ModelInstallation; none has a serde default
ModelInstallationFields ==
    {"model_id", "install_path", "version", "installed_at", "file_size",
     "checksum", "dependencies", "metadata"}

\* serde_json::from_str::<ModelInstallation>: Some(record) when the text is a
\* JSON object holding every field of the struct (others are ignored)
from_str(doc) ==
    IF doc.json /\ ModelInstallationFields \subseteq DOMAIN doc.obj
    THEN Some([f \in ModelInstallationFields |-> doc.obj[f]])
    ELSE None

\* <root>/installed/<id>/ (key id) or the custom install directory (key 0)
NoDir ==
    [exists |-> FALSE, files |-> [n \in TargetNames |-> NoNode], descriptor |-> None]

DirKeys == Ids \cup {0}

\* InstallationConfig; install_dependencies and enable_gpu are never read
InstallationConfigs ==
    [auto_verify : BOOLEAN, keep_temp_files : BOOLEAN, create_symlink : BOOLEAN,
     custom_install_path : {None, Some(0)}]

\* where an I/O operation of install_model is made to fail
InstallFailures ==
    {"none", "create_dir_all", "copy", "metadata", "checksum", "write", "write_partial"}

InstallOut(fs, result) == [fs |-> fs, result |-> result]

InstallErr(tag) ==
    [tag |-> tag, model_id |-> 0, install_path |-> 0, file_size |-> 0,
     checksum |-> <<>>]

InstallOk(model_id, install_path, file_size, checksum) ==
    [tag |-> "Ok", model_id |-> model_id, install_path |-> install_path,
     file_size |-> file_size, checksum |-> checksum]

\* a placement that registers the artifact as soon as it is in place
PlaceArtifact_registering(fs, key, model_path, config) ==
    LET target == model_path.name
        src == ReadFile(fs, model_path)
        node == IF config.create_symlink THEN LinkNode(model_path)
                ELSE CopyNode(unwrap_or(src, <<>>))
    IN  IF (config.create_symlink /\ fs.dirs[key].files[target].kind # "none")
           \/ (~config.create_symlink /\ src = None)
        THEN [ok |-> FALSE, fs |-> fs]
        ELSE [ok |-> TRUE,
              fs |-> [fs EXCEPT !.dirs[key].files[target] = node,
                                !.dirs[key].descriptor =
                                    Some(InstallDescriptor(key, 0, <<>>))]]

\* copy or link the source to <install_path>/<file name>
PlaceArtifact(fs, key, model_path, config) ==
    LET target == model_path.name
        old == fs.dirs[key].files[target]
        src == ReadFile(fs, model_path)
    IN  IF config.create_symlink
        THEN \* symlink(): fails when the target name is taken
             IF old.kind # "none" THEN [ok |-> FALSE, fs |-> fs]
             ELSE [ok |-> TRUE,
                   fs |-> [fs EXCEPT !.dirs[key].files[target] = LinkNode(model_path)]]
        ELSE \* copy(): fails without a source; writes through an existing link
             IF src = None THEN [ok |-> FALSE, fs |-> fs]
             ELSE IF old.kind = "symlink"
                  THEN [ok |-> TRUE,
                        fs |-> WriteFile(fs, old.target,
                                         IF old.target = model_path THEN Some(<<>>) ELSE src)]
                  ELSE [ok |-> TRUE,
                        fs |-> [fs EXCEPT !.dirs[key].files[target] = CopyNode(src[1])]]

\* a cleanup that removes the source wherever it lies
CleanupTemp_any_source(fs, model_path, config) ==
    IF ~config.keep_temp_files
    THEN WriteFile(fs, model_path, None)
    ELSE fs

\* remove the source when it is a temp file and temp files are not kept
CleanupTemp(fs, model_path, config) ==
    IF ~config.keep_temp_files /\ model_path.dir = "temp"
    THEN WriteFile(fs, model_path, None)
    ELSE fs

\* ModelDownloadManager::install_model on the files fs, with the I/O
\* operation `fail` failing
install_model(fs, model_id, model_path, config, fail) ==
    LET key == unwrap_or(config.custom_install_path, model_id)
        fs1 == [fs EXCEPT !.dirs[key].exists = TRUE,
                          !.installed_root = IF key = 0 THEN @ ELSE TRUE]
    IN  IF fail = "create_dir_all" THEN InstallOut(fs, InstallErr("IoError"))
        ELSE IF model_path.name = <<>> THEN InstallOut(fs1, InstallErr("ConfigError"))
        ELSE LET placed == PlaceArtifact(fs1, key, model_path, config)
                 fs2 == placed.fs
                 content == ReadNode(fs2, fs2.dirs[key].files[model_path.name])
             IN  IF fail = "copy" \/ ~placed.ok THEN InstallOut(fs1, InstallErr("IoError"))
                 ELSE IF fail = "metadata" \/ content = None
                      THEN InstallOut(fs2, InstallErr("IoError"))
                 ELSE IF fail = "checksum" /\ config.auto_verify
                      THEN InstallOut(fs2, InstallErr("IoError"))
                 ELSE LET file_size == Len(content[1])
                          checksum == IF config.auto_verify
                                      THEN calculate_checksum(content[1], "SHA256")
                                      ELSE <<>>
                          fs3 == [fs2 EXCEPT !.dirs[key].descriptor =
                                     Some(InstallDescriptor(model_id, file_size, checksum))]
                      IN  IF fail = "write" THEN InstallOut(fs2, InstallErr("IoError"))
                          ELSE IF fail = "write_partial"
                               THEN InstallOut([fs2 EXCEPT !.dirs[key].descriptor =
                                                   Some(TruncatedDoc)],
                                               InstallErr("IoError"))
                          ELSE InstallOut(CleanupTemp(fs3, model_path, config),
                                          InstallOk(model_id, key, file_size, checksum))

\* the permutations of the ids: the orders read_dir may list the entries in
Orders == { <<1, 2>>, <<2, 1>> }

\* the records of the entries of `order` whose model.json exists, can be
\* read and parses; the others are skipped
RECURSIVE Collect(_, _)
Collect(ds, order) ==
    IF order = <<>> THEN <<>>
    ELSE LET d == ds[Head(order)]
             rest == Collect(ds, Tail(order))
         IN  IF /\ d.exists
                /\ d.descriptor # None
                /\ d.descriptor[1].readable
                /\ from_str(d.descriptor[1]) # None
             THEN <<from_str(d.descriptor[1])[1]>> \o rest
             ELSE rest

\* a listing that gives up at the first descriptor that does not parse
get_installed_models_strict(root, ds, order, io_fail) ==
    IF ~root THEN [tag |-> "Ok", models |-> <<>>, io_fail |-> io_fail]
    ELSE IF io_fail \/ \E i \in DOMAIN order :
                          /\ ds[order[i]].exists
                          /\ ds[order[i]].descriptor # None
                          /\ from_str(ds[order[i]].descriptor[1]) = None
         THEN [tag |-> "Err", models |-> <<>>, io_fail |-> io_fail]
    ELSE [tag |-> "Ok", models |-> Collect(ds, order), io_fail |-> io_fail]

\* ModelDownloadManager::get_installed_models; io_fail: read_dir, next_entry
\* or file_type fails
get_installed_models(root, ds, order, io_fail) ==
    IF ~root THEN [tag |-> "Ok", models |-> <<>>, io_fail |-> io_fail]
    ELSE IF io_fail THEN [tag |-> "Err", models |-> <<>>, io_fail |-> io_fail]
    ELSE [tag |-> "Ok", models |-> Collect(ds, order), io_fail |-> io_fail]

\* a manager call as the lifecycle runs record it: the operation, its
\* arguments (the injected I/O failure included), whether the path the call
\* tests with exists() was there, and the result
ManagerCall(op, model_id, model_path, config, fail, existed, result) ==
    [op |-> op, model_id |-> model_id, model_path |-> model_path, config |-> config,
     fail |-> fail, existed |-> existed, result |-> result]

DefaultConfig ==
    [auto_verify |-> TRUE, keep_temp_files |-> FALSE, create_symlink |-> FALSE,
     custom_install_path |-> None]

NoCall == ManagerCall("none", 0, NoFileName, DefaultConfig, "none", FALSE, InstallErr("none"))

InitInstall ==
    /\ installed_root = FALSE
    /\ dirs = [k \in DirKeys |-> NoDir]
    /\ install_result = None
    /\ listing = None
    /\ ops = 0
    /\ last = NoCall
    /\ prev = [op |-> "none", model_id |-> 0, existed |-> FALSE]

\* install_model is called and returns
InstallModel ==
    /\ listing = None
    /\ ops < MaxInstalls
    /\ ops' = ops + 1
    /\ \E model_id \in Ids, model_path \in SourcePaths,
          config \in InstallationConfigs, fail \in InstallFailures :
          LET fs == [temp |-> temp, downloads |-> downloads,
                     installed_root |-> installed_root, dirs |-> dirs]
              out == install_model(fs, model_id, model_path, config, fail)
          IN  /\ temp' = out.fs.temp
              /\ downloads' = out.fs.downloads
              /\ installed_root' = out.fs.installed_root
              /\ dirs' = out.fs.dirs
              /\ install_result' = Some(out.result)
    /\ UNCHANGED <<listing, last, prev, vvars, dvars>>

\* what the manager finds under <root>/installed/ before its first install:
\* another program (an earlier version, a restore, a crash in mid-write)
\* has left an installation directory behind, with a complete descriptor,
\* a truncated one, an unreadable one, or none
ForeignInstallation ==
    /\ listing = None
    /\ ops = 0
    /\ \E d \in Ids :
          /\ ~dirs[d].exists
          /\ \E desc \in {None, Some(TruncatedDoc), Some(UnreadableDoc)}
                         \cup {Some(FullDescriptor(d, i)) : i \in Ids} :
                dirs' = [dirs EXCEPT ![d].exists = TRUE, ![d].descriptor = desc]
          /\ installed_root' = TRUE
    /\ UNCHANGED <<temp, downloads, install_result, listing, ops, last, prev, vvars, dvars>>

\* get_installed_models is called and returns
GetInstalledModels ==
    /\ listing = None
    /\ \E order \in Orders, io_fail \in BOOLEAN :
          listing' = Some(get_installed_models(installed_root, dirs, order, io_fail))
    /\ UNCHANGED <<temp, downloads, installed_root, dirs, install_result, ops, last, prev,
                   vvars, dvars>>

\* the caller takes the listing
DropListing ==
    /\ listing # None
    /\ listing' = None
    /\ UNCHANGED <<temp, downloads, installed_root, dirs, install_result, ops, last, prev,
                   vvars, dvars>>

NextI == InstallModel \/ ForeignInstallation \/ GetInstalledModels \/ DropListing

-----------------------------------------------------------------------------
(* download.rs: the lifecycle of an installation                           *)
(* install_model, install_model again, uninstall_model, in any order       *)

\* bound of the lifecycle runs: install_model and uninstall_model calls made
\* in one behaviour
MaxOps == 2

\* where the one I/O operation of uninstall_model is made to fail
UninstallFailures == {"none", "remove_dir_all"}

\* an uninstall that reports a directory it does not find
uninstall_model_strict(fs, model_id, fail) ==
    IF fs.dirs[model_id].exists /\ fail # "remove_dir_all"
    THEN InstallOut([fs EXCEPT !.dirs[model_id] = NoDir], InstallErr("Ok"))
    ELSE InstallOut(fs, InstallErr("IoError"))

\* ModelDownloadManager::uninstall_model on the files fs
uninstall_model(fs, model_id, fail) ==
    IF fs.dirs[model_id].exists
    THEN IF fail = "remove_dir_all"
         THEN InstallOut(fs, InstallErr("IoError"))
         ELSE InstallOut([fs EXCEPT !.dirs[model_id] = NoDir], InstallErr("Ok"))
    ELSE InstallOut(fs, InstallErr("Ok"))

\* install_model is called with arguments among those given and returns;
\* the call is kept with its arguments
InstallWith(bound, paths, configs, failures) ==
    /\ listing = None
    /\ ops < bound
    /\ ops' = ops + 1
    /\ \E model_id \in Ids, model_path \in paths,
          config \in configs, fail \in failures :
          LET fs == [temp |-> temp, downloads |-> downloads,
                     installed_root |-> installed_root, dirs |-> dirs]
              key == unwrap_or(config.custom_install_path, model_id)
              out == install_model(fs, model_id, model_path, config, fail)
          IN  /\ temp' = out.fs.temp
              /\ downloads' = out.fs.downloads
              /\ installed_root' = out.fs.installed_root
              /\ dirs' = out.fs.dirs
              /\ last' = ManagerCall("install", model_id, model_path, config, fail,
                                     dirs[key].exists, out.result)
    /\ prev' = [op |-> last.op, model_id |-> last.model_id, existed |-> last.existed]
    /\ UNCHANGED <<install_result, listing, vvars, dvars>>

\* install_model with any arguments, any I/O operation of it failing
PlacementInstall ==
    InstallWith(MaxInstalls, SourcePaths, InstallationConfigs, InstallFailures)

NextP == PlacementInstall

\* the installs of the lifecycle runs: a temp file or a downloaded file, by
\* copy or by link, kept or cleaned up, into the default directory
LifecyclePaths == SourcePaths \ {NoFileName}
LifecycleConfigs ==
    {c \in InstallationConfigs : c.auto_verify /\ c.custom_install_path = None}

LifecycleInstall == InstallWith(MaxOps, LifecyclePaths, LifecycleConfigs, {"none"})

\* uninstall_model is called and returns
UninstallModel ==
    /\ listing = None
    /\ ops < MaxOps
    /\ ops' = ops + 1
    /\ \E model_id \in Ids, fail \in UninstallFailures :
          LET fs == [temp |-> temp, downloads |-> downloads,
                     installed_root |-> installed_root, dirs |-> dirs]
              out == uninstall_model(fs, model_id, fail)
          IN  /\ dirs' = out.fs.dirs
              /\ last' = ManagerCall("uninstall", model_id, NoFileName, DefaultConfig,
                                     fail, dirs[model_id].exists, out.result)
    /\ prev' = [op |-> last.op, model_id |-> last.model_id, existed |-> last.existed]
    /\ UNCHANGED <<temp, downloads, installed_root, install_result, listing, vvars, dvars>>

NextL ==
    \/ LifecycleInstall
    \/ UninstallModel
    \/ ForeignInstallation
    \/ GetInstalledModels
    \/ DropListing

-----------------------------------------------------------------------------
(* integration.rs: install_model_simple                                    *)

\* search_response.models: the lists the discovery service can return, made
\* of a model whose checksum is that of the bytes its URL serves, a second
\* version of it with a stale checksum, an executable, and an entry whose
\* URL does not parse
SearchResponses ==
    LET m1 == DiscoveredModel(1, <<"m",".","g","g","u","f">>, "1", "https://h/a",
                              HashHex("SHA256", <<"G","G","x">>))
        m2 == DiscoveredModel(2, <<"m",".","g","g","u","f">>, "2", "https://h/b",
                              HashHex("SHA256", <<"G","G","x">>))
        exe == DiscoveredModel(2, <<"r",".","e","x","e">>, "1", "https://h/b",
                               HashHex("SHA256", <<"x","y">>))
        bad_url == DiscoveredModel(1, <<"m",".","g","g","u","f">>, "3", "not a url",
                                   HashHex("SHA256", <<"G","G","x">>))
    IN  { <<>>, <<m1, m2>>, <<m2, exe, m1>>, <<exe, bad_url>> }

\* the model_name and model_version arguments
QueryNames == { <<"m",".","g","g","u","f">>, <<"r",".","e","x","e">>, <<"t",".","x","y","z">> }
QueryVersions == { None, Some("1"), Some("2"), Some("3") }

\* the closure given to find
Matches(m, model_name, model_version) ==
    IF model_version # None
    THEN m.name = model_name /\ m.version = model_version[1]
    ELSE m.name = model_name

\* search_response.models.into_iter().find(..): the first match, or None
find(models, model_name, model_version) ==
    LET hits == {i \in DOMAIN models : Matches(models[i], model_name, model_version)}
    IN  IF hits = {} THEN None
        ELSE Some(models[CHOOSE i \in hits : \A j \in hits : i <= j])

\* install_model_simple returns r
WfReturn(w, r) == [w EXCEPT !.pc = "done", !.result = r]

\* what follows download_model: its Err is passed on by `?`, a status other
\* than Completed is an error, Completed goes on to validation
AfterDownload(call) ==
    IF call.result.tag # "Ok" THEN "DownloadError"
    ELSE IF call.progress[1].status = "Completed" THEN "validate"
    ELSE "DownloadFailed"

\* the workflow going on to install whatever the verdict
AfterValidation_unchecked(result) ==
    IF ~result.ok THEN "ValidatorError"
    ELSE "install"

\* what follows validate_model: its Err is passed on by `?`, a result that
\* is not valid is an error, a valid one goes on to installation
AfterValidation(result) ==
    IF ~result.ok THEN "ValidatorError"
    ELSE IF ~result.is_valid THEN "ValidationFailed"
    ELSE "install"

\* what the file system answers to the validation of the downloaded file
DownloadedFileEnvs(file) ==
    IF file = None THEN {NoFile("absent")}
    ELSE {NoFile("file")}
         \cup {[kind |-> "file", stat |-> TRUE, read1 |-> IoErr, read2 |-> IoErr,
                perm |-> "err"]}
         \cup {[kind |-> "file", stat |-> TRUE, read1 |-> ReadOk(file[1]), read2 |-> r2,
                perm |-> p] :
                 r2 \in {ReadOk(file[1]), IoErr}, p \in {"readonly", "writable", "err"}}

\* install_model_simple is called: search_models returns Err, or a response
\* in which find looks for the model
WfSearch ==
    /\ wf.pc = "idle"
    /\ \E model_name \in QueryNames, model_version \in QueryVersions :
          LET w == [wf EXCEPT !.model_name = model_name, !.model_version = model_version]
          IN  \/ wf' = WfReturn(w, "SearchError")
              \/ \E models \in SearchResponses :
                    LET found == find(models, model_name, model_version)
                    IN  wf' = IF found = None THEN WfReturn(w, "NotFound")
                              ELSE [w EXCEPT !.pc = "download",
                                             !.discovered_model = found[1]]
    /\ UNCHANGED <<svc, known_signatures, validation, stream, fvars, dvars, ivars>>

\* 2. download_model is called with the fields of the discovered model
WfDownload ==
    /\ wf.pc = "download"
    /\ StartWith(1, {wf.discovered_model.id}, {wf.discovered_model.name},
                 {wf.discovered_model.download_url}, {wf.discovered_model.checksum},
                 {"SHA256"})

\* download_model has returned
WfDownloaded ==
    /\ wf.pc = "download"
    /\ dl[1].pc = "done"
    /\ LET next == AfterDownload(dl[1])
       IN  wf' = IF next = "validate" THEN [wf EXCEPT !.pc = "validate"]
                 ELSE WfReturn(wf, next)
    /\ UNCHANGED <<svc, known_signatures, validation, stream, fvars, dvars, ivars>>

\* 3. validate_model is called on <download_dir>/<name> and returns
WfValidate ==
    /\ wf.pc = "validate"
    /\ LET name == wf.discovered_model.name
       IN  \E env \in DownloadedFileEnvs(downloads[name]) :
              LET result == validate_model(name, DefaultValidationConfig, env,
                                           known_signatures)
                  next == AfterValidation(result)
              IN  /\ validation' = Some([name |-> name, config |-> DefaultValidationConfig,
                                         env |-> env, sigs |-> known_signatures,
                                         result |-> result])
                  /\ wf' = IF next = "install" THEN [wf EXCEPT !.pc = "install"]
                           ELSE WfReturn(wf, next)
    /\ UNCHANGED <<svc, known_signatures, stream, fvars, dvars, ivars>>

\* 4. install_model is called on the downloaded file and returns
WfInstall ==
    /\ wf.pc = "install"
    /\ \E fail \in InstallFailures :
          LET fs == [temp |-> temp, downloads |-> downloads,
                     installed_root |-> installed_root, dirs |-> dirs]
              out == install_model(fs, wf.discovered_model.id,
                                   Path("root", wf.discovered_model.name),
                                   DefaultConfig, fail)
          IN  /\ temp' = out.fs.temp
              /\ downloads' = out.fs.downloads
              /\ installed_root' = out.fs.installed_root
              /\ dirs' = out.fs.dirs
              /\ install_result' = Some(out.result)
              /\ wf' = WfReturn(wf, IF out.result.tag = "Ok" THEN "Ok" ELSE "InstallError")
    /\ UNCHANGED <<svc, known_signatures, validation, stream, dvars, listing, ops, last, prev>>

NextS ==
    \/ WfSearch
    \/ WfDownload
    \/ HeadResponse(1) \/ GetResponse(1) \/ CreateTemp(1) \/ RecvChunk(1)
    \/ StreamEnd(1) \/ VerifyDownload(1) \/ RenameTemp(1)
    \/ WfDownloaded
    \/ WfValidate
    \/ WfInstall

-----------------------------------------------------------------------------
(* data_service.rs: ModelDataService                                       *)

\* the model ids callers pass: the installed ones, the available ones, and
\* one the service has never heard of
DataIds == 1..5

\* the ports callers pass to start_model
DataPorts == {8001, 8002}

\* what a call returns: the service as the call leaves it, and Ok or the
\* error message
DataOut(service, result) == [service |-> service, result |-> result]

\* iter().position(|model| model.model.id == id): the first index, or 0
PositionOf(models, id) ==
    LET hits == {i \in DOMAIN models : models[i].id = id}
    IN  IF hits = {} THEN 0 ELSE CHOOSE i \in hits : \A j \in hits : i <= j

\* Vec::remove(index)
RemoveAt(models, index) ==
    [i \in 1..(Len(models) - 1) |-> IF i < index THEN models[i] ELSE models[i + 1]]

\* an install that does not look whether the model is installed already
data_install_model_unchecked(service, model_id) ==
    IF \A i \in DOMAIN service.available_models : service.available_models[i] # model_id
    THEN DataOut(service, "ModelNotFound")
    ELSE DataOut([service EXCEPT !.installed_models =
                     Append(@, InstalledModel(model_id, "Stopped", None))], "Ok")

\* ModelDataService::install_model
data_install_model(service, model_id) ==
    IF \A i \in DOMAIN service.available_models : service.available_models[i] # model_id
    THEN DataOut(service, "ModelNotFound")
    ELSE IF PositionOf(service.installed_models, model_id) # 0
    THEN DataOut(service, "AlreadyInstalled")
    ELSE DataOut([service EXCEPT !.installed_models =
                     Append(@, InstalledModel(model_id, "Stopped", None))], "Ok")

\* ModelDataService::uninstall_model: the entry is removed, then its status
\* is looked at
data_uninstall_model(service, model_id) ==
    LET index == PositionOf(service.installed_models, model_id)
    IN  IF index = 0 THEN DataOut(service, "NotInstalled")
        ELSE LET removed_model == service.installed_models[index]
                 after == [service EXCEPT !.installed_models = RemoveAt(@, index)]
             IN  IF removed_model.status = "Running" THEN DataOut(after, "StopFirst")
                 ELSE DataOut(after, "Ok")

\* a start that does not look whether the port is taken
start_model_unchecked(service, model_id, port) ==
    LET index == PositionOf(service.installed_models, model_id)
    IN  IF index = 0 THEN DataOut(service, "NotInstalled")
        ELSE IF service.installed_models[index].status = "Running"
        THEN DataOut(service, "AlreadyRunning")
        ELSE IF service.installed_models[index].status = "Starting"
        THEN DataOut(service, "AlreadyStarting")
        ELSE DataOut([service EXCEPT !.installed_models[index].status = "Running",
                                     !.installed_models[index].port = Some(port)], "Ok")

\* ModelDataService::start_model
start_model(service, model_id, port) ==
    LET index == PositionOf(service.installed_models, model_id)
    IN  IF \E i \in DOMAIN service.installed_models :
              /\ service.installed_models[i].port = Some(port)
              /\ service.installed_models[i].status = "Running"
        THEN DataOut(service, "PortOccupied")
        ELSE IF index = 0 THEN DataOut(service, "NotInstalled")
        ELSE IF service.installed_models[index].status = "Running"
        THEN DataOut(service, "AlreadyRunning")
        ELSE IF service.installed_models[index].status = "Starting"
        THEN DataOut(service, "AlreadyStarting")
        ELSE DataOut([service EXCEPT !.installed_models[index].status = "Running",
                                     !.installed_models[index].port = Some(port)], "Ok")

\* ModelDataService::stop_model: the port stays as it was
stop_model(service, model_id) ==
    LET index == PositionOf(service.installed_models, model_id)
    IN  IF index = 0 THEN DataOut(service, "NotInstalled")
        ELSE IF service.installed_models[index].status = "Stopped"
        THEN DataOut(service, "AlreadyStopped")
        ELSE IF service.installed_models[index].status = "Stopping"
        THEN DataOut(service, "AlreadyStopping")
        ELSE DataOut([service EXCEPT !.installed_models[index].status = "Stopped"], "Ok")

\* the call is made and returns: the service is left as the call left it
DataCall(op, model_id, port, out) ==
    /\ svc' = [out.service EXCEPT !.last = [op |-> op, model_id |-> model_id,
                                            port |-> port, result |-> out.result]]
    /\ UNCHANGED <<known_signatures, validation, wf, stream, fvars, dvars, ivars>>

DataInstall ==
    \E model_id \in DataIds : DataCall("install", model_id, 0, data_install_model(svc, model_id))

DataUninstall ==
    \E model_id \in DataIds :
       DataCall("uninstall", model_id, 0, data_uninstall_model(svc, model_id))

StartModel ==
    \E model_id \in DataIds, port \in DataPorts :
       DataCall("start", model_id, port, start_model(svc, model_id, port))

StopModel ==
    \E model_id \in DataIds : DataCall("stop", model_id, 0, stop_model(svc, model_id))

NextM == DataInstall \/ DataUninstall \/ StartModel \/ StopModel

-----------------------------------------------------------------------------
(* Properties of install_model and get_installed_models                    *)

\* C9: after install_model succeeded into the default install directory of
\* an otherwise empty root, get_installed_models returns exactly one record,
\* whose model_id, file_size and checksum are those written to model.json.
C9_InstallThenListRoundTrip ==
    ( /\ listing # None
      /\ listing[1].tag = "Ok"
      /\ install_result # None
      /\ install_result[1].tag = "Ok"
      /\ install_result[1].install_path \in Ids
      /\ \A d \in Ids : dirs[d].exists <=> d = install_result[1].install_path ) =>
        LET written == dirs[install_result[1].install_path].descriptor[1].obj
            models == listing[1].models
        IN  /\ Len(models) = 1
            /\ models[1].model_id = written.model_id
            /\ models[1].file_size = written.file_size
            /\ models[1].checksum = written.checksum

\* an installation directory whose model.json is there, is readable text and
\* is a JSON object with every field of ModelInstallation
HasValidDescriptor(d) ==
    /\ dirs[d].exists
    /\ dirs[d].descriptor # None
    /\ dirs[d].descriptor[1].readable
    /\ dirs[d].descriptor[1].json
    /\ \A f \in {"model_id", "install_path", "version", "installed_at",
                 "file_size", "checksum", "dependencies", "metadata"} :
          f \in DOMAIN dirs[d].descriptor[1].obj

\* C10: get_installed_models returns Ok and lists every installation whose
\* model.json parses, whatever the other installation directories hold; a
\* bad descriptor is skipped and never turns the listing into an error.
C10_ListingSkipsBadDescriptors ==
    listing # None =>
        LET l == listing[1]
            valid == {d \in Ids : HasValidDescriptor(d)}
        IN  /\ l.tag = "Err" => (l.io_fail /\ installed_root)
            /\ l.tag = "Ok" =>
                  /\ Len(l.models) = Cardinality(valid)
                  /\ \A d \in valid : \E i \in DOMAIN l.models :
                        /\ l.models[i].install_path = d
                        /\ l.models[i].model_id = dirs[d].descriptor[1].obj.model_id
                        /\ l.models[i].file_size = dirs[d].descriptor[1].obj.file_size
                        /\ l.models[i].checksum = dirs[d].descriptor[1].obj.checksum

\* one record listed while the other directory holds a descriptor that
\* install_model wrote or that was cut short
C10_Witness ==
    /\ listing # None
    /\ listing[1].tag = "Ok"
    /\ Len(listing[1].models) = 1
    /\ \E d \in Ids :
          /\ dirs[d].descriptor # None
          /\ ~HasValidDescriptor(d)
          /\ install_result # None
          /\ install_result[1].install_path = d

-----------------------------------------------------------------------------
(* Properties of the installation lifecycle                                *)

\* the step is an install_model call made and returned
InstallReturned == ops' = ops + 1 /\ last'.op = "install"

\* C11: install_model deletes the source file only if keep_temp_files is
\* false and the source lies under the temp directory; a source outside the
\* temp directory still exists when install_model has returned, whatever the
\* InstallationConfig, and no other file of the root is deleted either.
C11_SourceDeletedOnlyFromTemp ==
    [][ InstallReturned =>
          LET path == last'.model_path
              before == [temp |-> temp, downloads |-> downloads]
              after == [temp |-> temp', downloads |-> downloads']
          IN  /\ (path.name # <<>> /\ path.dir # "temp" /\ ReadFile(before, path) # None)
                    => ReadFile(after, path) # None
              /\ \A n \in Names : downloads[n] # None => downloads'[n] # None
              /\ \A i \in Ids : (temp[i] # None /\ temp'[i] = None) =>
                    /\ path = Path("temp", TempName(i))
                    /\ ~last'.config.keep_temp_files
              /\ ( /\ path.dir = "temp"
                   /\ path.name # <<>>
                   /\ ~last'.config.keep_temp_files
                   /\ last'.result.tag = "Ok" ) => ReadFile(after, path) = None
      ]_vars

\* a downloaded file installed with keep_temp_files = false is still there
C11_Witness ==
    /\ last.op = "install"
    /\ last.result.tag = "Ok"
    /\ last.model_path.dir = "root"
    /\ ~last.config.keep_temp_files
    /\ downloads[last.model_path.name] # None
    /\ dirs[unwrap_or(last.config.custom_install_path, last.model_id)]
           .files[last.model_path.name].kind # "none"

\* C27: after install_model returned Ok, the artifact at
\* <install-dir>/<file-name> refers to existing content, for every
\* InstallationConfig and source location: a link made with create_symlink
\* does not lose its target to the temp-file cleanup of the same call.
C27_InstalledArtifactReadable ==
    [][ (InstallReturned /\ last'.result.tag = "Ok") =>
          LET key == unwrap_or(last'.config.custom_install_path, last'.model_id)
              after == [temp |-> temp', downloads |-> downloads']
          IN  ReadNode(after, dirs'[key].files[last'.model_path.name]) # None
      ]_vars

\* the failures of install_model that happen before the descriptor is written
EarlyFailure(call) ==
    \/ call.fail \in {"create_dir_all", "copy", "metadata"}
    \/ call.fail = "checksum" /\ call.config.auto_verify

\* C12: model.json is written only after the copy or link of the artifact and
\* the stat of the target succeeded; an install_model call that fails at an
\* earlier step returns an error and writes no descriptor, so a first install
\* of an id that is interrupted leaves no model.json for it.
C12_DescriptorWrittenLast ==
    [][ InstallReturned =>
          LET call == last'
              key == unwrap_or(call.config.custom_install_path, call.model_id)
          IN  /\ (call.result.tag # "Ok" /\ call.fail \notin {"write", "write_partial"})
                    => \A k \in DirKeys : dirs'[k].descriptor = dirs[k].descriptor
              /\ EarlyFailure(call) =>
                    /\ call.result.tag # "Ok"
                    /\ \A k \in DirKeys : dirs'[k].descriptor = dirs[k].descriptor
              /\ \A k \in DirKeys : dirs'[k].descriptor # dirs[k].descriptor =>
                    /\ k = key
                    /\ call.model_path.name # <<>>
                    /\ dirs'[k].files[call.model_path.name].kind # "none"
                    /\ ~EarlyFailure(call)
      ]_vars

\* a first install that failed at the stat of the target: the artifact is in
\* the directory, no model.json is
C12_Witness ==
    /\ last.op = "install"
    /\ ~last.existed
    /\ last.fail = "metadata"
    /\ last.result.tag = "IoError"
    /\ LET d == dirs[unwrap_or(last.config.custom_install_path, last.model_id)]
       IN  /\ d.exists
           /\ d.files[last.model_path.name].kind # "none"
           /\ d.descriptor = None

\* the id has been installed by install_model: its directory holds an
\* artifact and the model.json written for the id
Installed(id) ==
    /\ dirs[id].exists
    /\ \E n \in TargetNames : dirs[id].files[n].kind # "none"
    /\ dirs[id].descriptor # None
    /\ dirs[id].descriptor[1].json
    /\ "model_id" \in DOMAIN dirs[id].descriptor[1].obj
    /\ dirs[id].descriptor[1].obj.model_id = id

\* C13: install_model called again for an id already installed, into the
\* same directory and with its source file still there, succeeds, by copy and
\* by link alike, and leaves the one model.json of the directory holding the
\* record of the second install.
C13_ReinstallSucceeds ==
    [][ ( /\ InstallReturned
          /\ last.op = "install"
          /\ last.result.tag = "Ok"
          /\ last'.model_id = last.model_id
          /\ last'.config.custom_install_path = None
          /\ Installed(last.model_id)
          /\ ReadFile([temp |-> temp, downloads |-> downloads], last'.model_path) # None )
        => /\ last'.result.tag = "Ok"
           /\ dirs'[last'.model_id].descriptor =
                 Some(InstallDescriptor(last'.model_id, last'.result.file_size,
                                        last'.result.checksum))
      ]_vars

\* the step is an uninstall_model call made and returned
UninstallReturned == ops' = ops + 1 /\ last'.op = "uninstall"

\* C14: uninstall_model removes <root>/installed/<id>/ entirely when it is
\* there and returns Ok when it is not, so a second call in a row returns Ok
\* too; it fails only when the removal itself does.  The directories of the
\* other ids and the files of the root are untouched, and a listing made
\* afterwards holds no record from the directory.
C14_UninstallIdempotent ==
    [][ /\ UninstallReturned =>
              LET id == last'.model_id
                  tag == last'.result.tag
              IN  /\ tag # "Ok" => (last'.fail = "remove_dir_all" /\ dirs[id].exists)
                  /\ ~dirs[id].exists => (tag = "Ok" /\ dirs' = dirs)
                  /\ tag = "Ok" => dirs'[id] = NoDir
                  /\ \A k \in DirKeys \ {id} : dirs'[k] = dirs[k]
                  /\ temp' = temp
                  /\ downloads' = downloads
                  /\ ( /\ last.op = "uninstall"
                       /\ last.model_id = id
                       /\ last.result.tag = "Ok" ) => tag = "Ok"
        /\ ( /\ listing = None
             /\ listing' # None
             /\ last.op = "uninstall"
             /\ last.result.tag = "Ok"
             /\ listing'[1].tag = "Ok" ) =>
               \A i \in DOMAIN listing'[1].models :
                   listing'[1].models[i].install_path # last.model_id
      ]_vars

\* a listed installation uninstalled twice in a row, both calls Ok, and the
\* listing made afterwards still holding the record of the other id
C14_Witness ==
    /\ last.op = "uninstall"
    /\ last.result.tag = "Ok"
    /\ ~last.existed
    /\ prev = [op |-> "uninstall", model_id |-> last.model_id, existed |-> TRUE]
    /\ listing # None
    /\ listing[1].tag = "Ok"
    /\ Len(listing[1].models) = 1
    /\ listing[1].models[1].install_path # last.model_id

-----------------------------------------------------------------------------
(* Properties of the progress figures                                      *)

\* C20: for a download of known total size and constant throughput,
\* estimated_remaining_seconds never increases from one chunk update to the
\* next as downloaded_bytes grows (once it is Some it stays Some and does
\* not grow), and it is None while downloaded_bytes == 0.
C20_EtaNonIncreasing ==
    [][/\ stream'.progress.downloaded_bytes = 0 =>
             stream'.progress.estimated_remaining_seconds = None
       /\ (/\ stream'.progress.downloaded_bytes > stream.progress.downloaded_bytes
           /\ stream.progress.estimated_remaining_seconds # None) =>
             /\ stream'.progress.estimated_remaining_seconds # None
             /\ stream'.progress.estimated_remaining_seconds[1]
                   <= stream.progress.estimated_remaining_seconds[1]]_vars

\* C21: after every chunk update, if download_speed_bps is 0 then
\* estimated_remaining_seconds is None: no estimate is reported while the
\* throughput figure is zero, also when it has dropped back to zero.
C21_NoEtaAtZeroSpeed ==
    (stream.chunks > 0 /\ stream.progress.download_speed_bps = 0) =>
        stream.progress.estimated_remaining_seconds = None

-----------------------------------------------------------------------------
(* Properties of install_model_simple                                      *)

\* C16: install_model_simple runs discovery, download, validation and
\* installation in that order and stops at the first stage that fails:
\* download_model is called only for a model that find matched, validate_model
\* only after download_model returned Ok with status Completed, install_model
\* only after validate_model returned a result with is_valid == true; and
\* once a stage has failed no later stage has been started.
C16_StagesInOrder ==
    /\ dl[1].pc # "idle" =>
          /\ wf.discovered_model # NoModel
          /\ Matches(wf.discovered_model, wf.model_name, wf.model_version)
    /\ validation # None =>
          /\ dl[1].pc = "done"
          /\ dl[1].result.tag = "Ok"
          /\ dl[1].progress[1].status = "Completed"
    /\ install_result # None =>
          /\ validation # None
          /\ validation[1].result.ok
          /\ validation[1].result.is_valid
    /\ wf.result \in {"SearchError", "NotFound"} =>
          dl[1].pc = "idle" /\ validation = None /\ install_result = None
    /\ wf.result \in {"DownloadError", "DownloadFailed"} =>
          validation = None /\ install_result = None
    /\ wf.result \in {"ValidatorError", "ValidationFailed"} =>
          install_result = None /\ \A k \in DirKeys : ~dirs[k].exists
    /\ wf.result = "Ok" => install_result # None /\ install_result[1].tag = "Ok"

\* a run that downloaded its artifact, had it rejected by validate_model and
\* returned without installing anything
C16_Witness ==
    /\ wf.pc = "done"
    /\ wf.result = "ValidationFailed"
    /\ dl[1].result.tag = "Ok"
    /\ downloads[wf.discovered_model.name] # None
    /\ validation # None
    /\ ~validation[1].result.is_valid
    /\ install_result = None

\* C25: every Ok result of download_model carries status Completed, and the
\* statuses Queued, Installing, Failed, Cancelled and Paused are never
\* assigned to a progress record (pause_download and resume_download change
\* nothing): install_model_simple never takes its branch for an Ok result
\* that is not Completed.
C25_OkMeansCompleted ==
    \A c \in Calls :
       /\ \A i \in DOMAIN dl[c].status_log :
             dl[c].status_log[i] \in {"Downloading", "Verifying", "Completed"}
       /\ dl[c].progress # None =>
             dl[c].progress[1].status \in {"Downloading", "Verifying", "Completed"}
       /\ (dl[c].pc = "done" /\ dl[c].result.tag = "Ok") =>
             /\ dl[c].progress # None
             /\ dl[c].progress[1].status = "Completed"
       /\ dl[c].pc = "done" => AfterDownload(dl[c]) # "DownloadFailed"
       /\ (dl[c].pc = "done" /\ dl[c].result.tag # "Ok" /\ dl[c].progress # None) =>
             dl[c].progress[1].status # "Completed"

\* a call that failed at the checksum: an Err, its record left at Verifying
C25_Witness ==
    \E c \in Calls :
       /\ dl[c].pc = "done"
       /\ dl[c].result.tag = "ChecksumMismatch"
       /\ dl[c].progress # None
       /\ dl[c].progress[1].status = "Verifying"

-----------------------------------------------------------------------------
(* Properties of ModelDataService                                          *)

\* the step is a call of the operation on the data service
DataStep(op) == svc' # svc /\ svc'.last.op = op

\* the ids of the installed models, and the entry of an id
InstalledIds(service) ==
    {service.installed_models[i].id : i \in DOMAIN service.installed_models}

\* C28: uninstall_model refuses to uninstall a Running model: whenever it
\* returns an error (not installed, or stop the model first) installed_models
\* is unchanged, and a model leaves the list only when the call returns Ok.
C28_UninstallRefusesRunning ==
    [][ DataStep("uninstall") =>
          LET index == PositionOf(svc.installed_models, svc'.last.model_id)
          IN  /\ svc'.last.result # "Ok" => svc'.installed_models = svc.installed_models
              /\ (index # 0 /\ svc.installed_models[index].status = "Running") =>
                    /\ svc'.last.result = "StopFirst"
                    /\ svc'.last.model_id \in InstalledIds(svc')
      ]_vars

\* C29: no two installed models with status Running have the same port,
\* after any sequence of install, uninstall, start and stop calls: start_model
\* fails with the port-occupied error, changing nothing, when a Running
\* model already holds the requested port.
C29_RunningPortsDistinct ==
    [][ /\ \A i, j \in DOMAIN svc'.installed_models :
              ( /\ i # j
                /\ svc'.installed_models[i].status = "Running"
                /\ svc'.installed_models[j].status = "Running" ) =>
                  svc'.installed_models[i].port # svc'.installed_models[j].port
        /\ ( /\ DataStep("start")
             /\ \E i \in DOMAIN svc.installed_models :
                   /\ svc.installed_models[i].status = "Running"
                   /\ svc.installed_models[i].port = Some(svc'.last.port) ) =>
               /\ svc'.last.result = "PortOccupied"
               /\ svc'.installed_models = svc.installed_models
        /\ (DataStep("start") /\ svc'.last.result # "Ok") =>
               svc'.installed_models = svc.installed_models
      ]_vars

\* a start refused because another model is running on the port, while a
\* second model runs on the other port
C29_Witness ==
    /\ svc.last.op = "start"
    /\ svc.last.result = "PortOccupied"
    /\ \E i, j \in DOMAIN svc.installed_models :
          /\ svc.installed_models[i].id # svc.last.model_id
          /\ svc.installed_models[i].status = "Running"
          /\ svc.installed_models[i].port = Some(svc.last.port)
          /\ svc.installed_models[j].id = svc.last.model_id
          /\ svc.installed_models[j].status = "Stopped"

\* C30: installed_models holds at most one entry per model id after any
\* sequence of calls: install_model succeeds only for an id that is in the
\* available list and not yet installed, adding one entry with status
\* Stopped, and fails without changing anything otherwise.
C30_OneEntryPerId ==
    [][ /\ \A i, j \in DOMAIN svc'.installed_models :
              i # j => svc'.installed_models[i].id # svc'.installed_models[j].id
        /\ DataStep("install") =>
              LET model_id == svc'.last.model_id
                  available == \E i \in DOMAIN svc.available_models :
                                  svc.available_models[i] = model_id
              IN  /\ svc'.last.result = "Ok" <=>
                        (available /\ model_id \notin InstalledIds(svc))
                  /\ svc'.last.result = "Ok" =>
                        svc'.installed_models =
                           Append(svc.installed_models,
                                  [id |-> model_id, status |-> "Stopped", port |-> None])
                  /\ svc'.last.result # "Ok" =>
                        svc'.installed_models = svc.installed_models
                  /\ svc'.available_models = svc.available_models
      ]_vars

\* an available model installed after the other one and after an uninstall:
\* it is appended as one entry, Stopped, without a port
C30_Witness ==
    /\ svc.last.op = "install"
    /\ svc.last.result = "Ok"
    /\ svc.last.model_id = 3
    /\ svc.installed_models =
          << [id |-> 2, status |-> "Running", port |-> Some(8002)],
             [id |-> 4, status |-> "Stopped", port |-> None],
             [id |-> 3, status |-> "Stopped", port |-> None] >>

-----------------------------------------------------------------------------
(* Specifications                                                          *)

\* a download manager and a validator just constructed over an empty root
Init == InitV /\ InitD /\ InitInstall

\* a download manager constructed over a root that earlier downloads have
\* filled: each temp file and each downloaded file is there
InitFilled ==
    /\ InitV
    /\ dl = [c \in Calls |-> IdleCall]
    /\ started = 0
    /\ cn = IdleCancel
    /\ cancels = 0
    /\ inodes = [temp |-> [i \in Ids |-> i],
                 down |-> [n \in Names |-> IF extension(n) = Some(<<"e","x","e">>)
                                            THEN 4 ELSE 3]]
    /\ temp = [i \in Ids |-> Some(IF i = 1 THEN <<"G","G","x">> ELSE <<"x","y">>)]
    /\ downloads = [n \in Names |->
                      Some(IF extension(n) = Some(<<"e","x","e">>)
                           THEN <<"x","y">> ELSE <<"G","G","x">>)]
    /\ InitInstall

SpecV == Init /\ [][NextV]_vars

SpecD == Init /\ [][NextD]_vars

SpecI == InitFilled /\ [][NextI]_vars

SpecC == Init /\ [][NextC]_vars

SpecP == InitFilled /\ [][NextP]_vars

SpecL == InitFilled /\ [][NextL]_vars

SpecS == Init /\ [][NextS]_vars

SpecE == Init /\ [][NextE]_vars

SpecF == Init /\ [][NextF]_vars

SpecQ == Init /\ [][NextQ]_vars

SpecM == Init /\ [][NextM]_vars

====
